---- MODULE Spec2Model ----
(***************************************************************************)
(* AidConnect dashboard: the shelter panel (ResourcePanel.fetchNeeds,      *)
(* sortedFiltered) and the affected-area panel (AffectedAreaPanel.         *)
(* fetchAffectedAreas, sortedAreas) of the resource-matching pipeline.     *)
(*                                                                         *)
(* Units.  Coordinates are integers in millidegrees.  A distance is an     *)
(* integer number of metres, i.e. the kilometre value with the three       *)
(* decimals that toFixed(3) keeps.  Multipliers (roadFactor,               *)
(* demandMultiplier, priorityMultiplier) are integers in hundredths.       *)
(* Real arithmetic is exact rational arithmetic on mixed numbers           *)
(* i + n/d, so that no intermediate value leaves the 32-bit range.         *)
(***************************************************************************)
EXTENDS Integers, Sequences, FiniteSets, TLC

(***************************************************************************)
(* JavaScript values.  Every value has the same three fields so that any   *)
(* two values can be compared: t is the type tag, v the numeric payload,   *)
(* s the string (sequence of characters) or array (sequence of values).    *)
(***************************************************************************)
JS(t, v, s) == [t |-> t, v |-> v, s |-> s]

Null == JS("null", 0, <<>>)

Undefined == JS("undefined", 0, <<>>)

NaN == JS("NaN", 0, <<>>)

Infinity == JS("Infinity", 0, <<>>)

NegInfinity == JS("-Infinity", 0, <<>>)

Num(n) == JS("number", n, <<>>)

Str(chars) == JS("string", 0, chars)

Arr(elems) == JS("array", 0, elems)

\* typeof x === "number": NaN and the infinities are of type number too
TypeofNumber(x) == x.t \in {"number", "NaN", "Infinity", "-Infinity"}

\* x != null (loose): neither null nor undefined
NotNullish(x) == x.t \notin {"null", "undefined"}

\* truthiness, as in `area.coordinates && ...`
Truthy(x) ==
    CASE x.t \in {"null", "undefined", "NaN"} -> FALSE
      [] x.t = "number" -> x.v # 0
      [] x.t = "string" -> x.s # <<>>
      [] OTHER -> TRUE

Digits == <<"0", "1", "2", "3", "4", "5", "6", "7", "8", "9">>

IsDigit(c) == \E i \in 1..10 : Digits[i] = c

DigitValue(c) == (CHOOSE i \in 1..10 : Digits[i] = c) - 1

RECURSIVE DecimalValue(_)
DecimalValue(chars) ==
    IF chars = <<>> THEN 0
    ELSE 10 * DecimalValue(SubSeq(chars, 1, Len(chars) - 1))
         + DigitValue(chars[Len(chars)])

\* Number("..."): a string of digits is a whole number of degrees, the
\* empty string is 0, every other string is NaN
StringToNumber(chars) ==
    IF \A i \in 1..Len(chars) : IsDigit(chars[i])
    THEN Num(1000 * DecimalValue(chars))
    ELSE NaN

\* Number(x), which is also the coercion of the operands of - and *
ToNumber(x) ==
    CASE x.t = "null" -> Num(0)
      [] x.t = "undefined" -> NaN
      [] x.t = "string" -> StringToNumber(x.s)
      [] x.t = "array" -> IF x.s = <<>> THEN Num(0) ELSE NaN
      [] OTHER -> x

\* a + b on numbers
NumAdd(a, b) ==
    CASE a.t = "NaN" \/ b.t = "NaN" -> NaN
      [] a.t = "Infinity" -> IF b.t = "-Infinity" THEN NaN ELSE Infinity
      [] a.t = "-Infinity" -> IF b.t = "Infinity" THEN NaN ELSE NegInfinity
      [] b.t \in {"Infinity", "-Infinity"} -> b
      [] OTHER -> Num(a.v + b.v)

NumNeg(a) ==
    CASE a.t = "NaN" -> NaN
      [] a.t = "Infinity" -> NegInfinity
      [] a.t = "-Infinity" -> Infinity
      [] OTHER -> Num(0 - a.v)

\* a - b on numbers: Infinity - Infinity is NaN
NumSub(a, b) == NumAdd(a, NumNeg(b))

\* a <= b on numbers: false whenever an operand is NaN
NumLeq(a, b) ==
    CASE a.t = "NaN" \/ b.t = "NaN" -> FALSE
      [] a.t = "-Infinity" \/ b.t = "Infinity" -> TRUE
      [] a.t = "Infinity" \/ b.t = "-Infinity" -> FALSE
      [] OTHER -> a.v <= b.v

\* Math.max(a, b): NaN when an operand is NaN
MathMax(a, b) ==
    CASE a.t = "NaN" \/ b.t = "NaN" -> NaN
      [] NumLeq(a, b) -> b
      [] OTHER -> a

(***************************************************************************)
(* Strings: toLowerCase and includes.                                      *)
(***************************************************************************)
UpperCase == <<"A", "B", "C", "D", "E", "F", "G", "H", "I", "J", "K", "L", "M",
               "N", "O", "P", "Q", "R", "S", "T", "U", "V", "W", "X", "Y", "Z">>

LowerCase == <<"a", "b", "c", "d", "e", "f", "g", "h", "i", "j", "k", "l", "m",
               "n", "o", "p", "q", "r", "s", "t", "u", "v", "w", "x", "y", "z">>

\* the lower-case letter of each upper-case letter
ToLower ==
    [c \in {UpperCase[k] : k \in 1..26} |->
        LowerCase[CHOOSE k \in 1..26 : UpperCase[k] = c]]

toLowerCase(chars) ==
    [i \in 1..Len(chars) |->
        IF chars[i] \in DOMAIN ToLower THEN ToLower[chars[i]] ELSE chars[i]]

\* hay.includes(needle)
includes(hay, needle) ==
    \E i \in 0..(Len(hay) - Len(needle)) :
        \A j \in 1..Len(needle) : hay[i + j] = needle[j]

(***************************************************************************)
(* Exact arithmetic on mixed numbers i + n/d with 0 <= n < d.              *)
(***************************************************************************)
MixDiv(x, d) == [i |-> x \div d, n |-> x % d, d |-> d]

MixAdd(m, k) == [m EXCEPT !.i = @ + k]

\* m * a / b
MixMul(m, a, b) ==
    LET ia == m.i * a
        num == (ia % b) * m.d + m.n * a
        den == m.d * b
    IN [i |-> (ia \div b) + (num \div den), n |-> num % den, d |-> den]

\* Math.round of a non-negative mixed number: halves round up
MathRound(m) == m.i + (IF 2 * m.n >= m.d THEN 1 ELSE 0)

(***************************************************************************)
(* DisasterContext (config/disaster.ts) and the hook that returns it.      *)
(***************************************************************************)
\* disaster.ts: lat 38.90155, lon -77.06059 (in millidegrees)
DisasterLat == 38902

DisasterLon == 0 - 77061

ResourcesNeeded ==
    << <<"s", "h", "e", "l", "t", "e", "r">>,
       <<"e", "v", "a", "c", "u", "a", "t", "i", "o", "n", "-",
         "t", "r", "a", "n", "s", "p", "o", "r", "t">>,
       <<"m", "e", "d", "i", "c", "a", "l">>,
       <<"f", "o", "o", "d">>,
       <<"w", "a", "t", "e", "r">>,
       <<"g", "e", "n", "e", "r", "a", "t", "o", "r", "s">> >>

DEFAULT_DISASTER ==
    [lat |-> Num(DisasterLat), lon |-> Num(DisasterLon),
     severity |-> "high", resourcesNeeded |-> ResourcesNeeded]

Severities == {"low", "moderate", "high", "critical"}

(***************************************************************************)
(* haversineKm.  The model places every entity on the meridian of the      *)
(* point it is measured from (or both points on the equator); there        *)
(* a = sin^2(d/2), so c = 2*atan2(sqrt(a), sqrt(1-a)) is the angle d       *)
(* folded into [0, 180] degrees and the result is R*c.                     *)
(***************************************************************************)
Abs(x) == IF x < 0 THEN 0 - x ELSE x

\* variant: the angle of a southward or westward difference is lost
CentralAngle_Mutant(d) ==
    LET m == d % 360000
    IN IF d < 0 THEN 0 ELSE IF m > 180000 THEN 360000 - m ELSE m

\* the central angle c, in millidegrees, of an angular difference d
CentralAngle(d) ==
    LET m == Abs(d) % 360000
    IN IF m > 180000 THEN 360000 - m ELSE m

\* R * c for R = 6371.0 km, in decimetres: one degree is 111194.92664 m
ArcLength(c) ==
    LET q == c \div 1000
        r == c % 1000
    IN q * 1111949 + r * 1111 + ((q * 2664 + r * 9493 + 5000) \div 10000)

\* the result is in decimetres; an operand that is not a number is coerced
haversineKm(lat1, lon1, lat2, lon2) ==
    LET a1 == ToNumber(lat1)
        o1 == ToNumber(lon1)
        a2 == ToNumber(lat2)
        o2 == ToNumber(lon2)
    IN CASE \E x \in {a1, o1, a2, o2} : x.t # "number" -> NaN
         [] \A x \in {a1, o1, a2, o2} : x.t = "number" /\ o1.v = o2.v ->
                Num(ArcLength(CentralAngle(a2.v - a1.v)))
         [] \A x \in {a1, o1, a2, o2} : x.t = "number" /\ o1.v # o2.v
                /\ a1.v = 0 /\ a2.v = 0 ->
                Num(ArcLength(CentralAngle(o2.v - o1.v)))

\* Number(x.toFixed(3)): kilometres with three decimals, i.e. whole metres
toFixed3(x) == IF x.t = "number" THEN Num((x.v + 5) \div 10) ELSE x

(***************************************************************************)
(* The ETA heuristic shared by fetchNeeds and fetchAffectedAreas.          *)
(***************************************************************************)
baseSpeedKmh == 80

deployOverheadMinutes == 20

MinEtaMinutes == 5

\* in hundredths
\* variant: a critical severity does not slow the roads down
roadFactor_Mutant(disaster) ==
    CASE disaster.severity = "high" -> 95
      [] disaster.severity = "moderate" -> 98
      [] OTHER -> 100

roadFactor(disaster) ==
    CASE disaster.severity = "critical" -> 85
      [] disaster.severity = "high" -> 95
      [] disaster.severity = "moderate" -> 98
      [] OTHER -> 100

\* travelHours * 60 + deployOverheadMinutes for a distance in metres:
\* (m / 1000) / (baseSpeedKmh * rf / 100) * 60 = 6 m / (baseSpeedKmh * rf)
travelAndDeployMinutes(metres, rf) ==
    MixAdd(MixDiv(6 * metres, baseSpeedKmh * rf), deployOverheadMinutes)

\* Math.max(5, Math.round(x))
flooredRound(m) ==
    IF MathRound(m) < MinEtaMinutes THEN MinEtaMinutes ELSE MathRound(m)

\* `${Math.floor(eta_minutes / 60)}h ${eta_minutes % 60}m`
formatEta(eta_minutes) ==
    IF eta_minutes.t = "number"
    THEN Str(<<Num(eta_minutes.v \div 60), Num(eta_minutes.v % 60)>>)
    ELSE Str(<<NaN, NaN>>)

(***************************************************************************)
(* ResourcePanel.fetchNeeds: one line of shelters_actual.jsonl -> Need.    *)
(* A shelter record s has the fields shelter_name, location, details,      *)
(* available_items, latitude, longitude (JavaScript values).               *)
(***************************************************************************)
IsWordChar(c) ==
    \/ IsDigit(c)
    \/ c = "_"
    \/ \E k \in 1..26 : UpperCase[k] = c \/ LowerCase[k] = c

\* chars.match(/key(class+)/): the capture group of the first match,
\* <<>> when there is no match
RegexCapture(chars, key, InClass(_)) ==
    LET starts == {i \in 1..Len(chars) :
                      /\ i + Len(key) <= Len(chars)
                      /\ SubSeq(chars, i, i + Len(key) - 1) = key
                      /\ InClass(chars[i + Len(key)])}
    IN IF starts = {} THEN <<>>
       ELSE LET i == CHOOSE j \in starts : \A k \in starts : j <= k
                from == i + Len(key)
                runs == {n \in 1..(Len(chars) - from + 1) :
                            \A j \in from..(from + n - 1) : InClass(chars[j])}
                n == CHOOSE m \in runs : \A k \in runs : k <= m
            IN SubSeq(chars, from, from + n - 1)

PostCapKey == <<"p", "o", "s", "t", "_", "c", "a", "p", "=">>

EvacCapKey == <<"e", "v", "a", "c", "_", "c", "a", "p", "=">>

StatusKey == <<"S", "t", "a", "t", "u", "s", "=">>

NoItemsListed ==
    Str(<<"N", "o", " ", "i", "t", "e", "m", "s", " ",
          "l", "i", "s", "t", "e", "d">>)

UnknownUrgency == 9999

\* lines 49-97: the record mapped from a shelter line
mapped(s) ==
    LET isText == Truthy(s.details) /\ s.details.t = "string"
        postCapMatch == IF isText
                        THEN RegexCapture(s.details.s, PostCapKey, IsDigit)
                        ELSE <<>>
        evacCapMatch == IF isText
                        THEN RegexCapture(s.details.s, EvacCapKey, IsDigit)
                        ELSE <<>>
        statusMatch == IF isText
                       THEN RegexCapture(s.details.s, StatusKey, IsWordChar)
                       ELSE <<>>
        postCap == IF postCapMatch # <<>> THEN DecimalValue(postCapMatch) ELSE 0
        evacCap == IF evacCapMatch # <<>> THEN DecimalValue(evacCapMatch) ELSE 0
        status == IF statusMatch # <<>> THEN statusMatch
                  ELSE <<"U", "N", "K", "N", "O", "W", "N">>
        totalCap == postCap + evacCap
        priority == IF totalCap > 400 THEN "high"
                    ELSE IF totalCap > 200 THEN "medium" ELSE "low"
        items == IF Truthy(s.available_items) /\ s.available_items.t = "array"
                 THEN s.available_items.s
                 ELSE IF Truthy(s.available_items)
                         /\ s.available_items.t = "string"
                      THEN <<s.available_items>>
                      ELSE <<NoItemsListed>>
        lat == IF NotNullish(s.latitude) THEN s.latitude ELSE Null
        lon == IF NotNullish(s.longitude) THEN s.longitude ELSE Null
    IN [shelter |-> IF s.shelter_name # "" THEN s.shelter_name
                    ELSE "Unknown shelter",
        location |-> s.location,
        items |-> items,
        priority |-> priority,
        eta |-> Undefined,
        lat |-> IF lat # Null THEN ToNumber(lat) ELSE Null,
        lon |-> IF lon # Null THEN ToNumber(lon) ELSE Null,
        distance_km |-> Null,
        eta_minutes |-> Null,
        urgency |-> Num(UnknownUrgency),
        capacity |-> totalCap,
        status |-> status]

\* String(x) of an item or of a needed resource
String(x) == IF x.t = "string" THEN x.s ELSE <<>>

\* line 132
demandOverlap(m, disaster) ==
    \E i \in 1..Len(m.items) : \E r \in 1..Len(disaster.resourcesNeeded) :
        includes(toLowerCase(String(m.items[i])),
                 toLowerCase(disaster.resourcesNeeded[r]))

\* line 133, in hundredths
demandMultiplier(m, disaster) ==
    IF demandOverlap(m, disaster) THEN 125 ELSE 100

\* line 134, in hundredths
priorityMultiplier(m) ==
    IF m.priority = "high" THEN 85 ELSE IF m.priority = "low" THEN 115 ELSE 100

\* line 146
\* variant: a medium priority scored as a low one
priorityScore_Mutant(m) ==
    IF m.priority = "high" THEN 0 ELSE 100

priorityScore(m) ==
    IF m.priority = "high" THEN 0 ELSE IF m.priority = "medium" THEN 50 ELSE 100

\* line 147
etaScore(eta_minutes) ==
    IF NotNullish(eta_minutes) THEN eta_minutes ELSE Num(UnknownUrgency)

\* lines 128: the guard of the distance computation
needHasCoordinates(m, disaster) ==
    /\ TypeofNumber(m.lat)
    /\ TypeofNumber(m.lon)
    /\ TypeofNumber(disaster.lat)
    /\ TypeofNumber(disaster.lon)

\* line 130
needDistanceKm(m, disaster) ==
    IF needHasCoordinates(m, disaster)
    THEN toFixed3(haversineKm(disaster.lat, disaster.lon, m.lat, m.lon))
    ELSE Null

\* lines 131-138
needEtaMinutes(m, disaster) ==
    LET distance_km == needDistanceKm(m, disaster)
    IN CASE distance_km.t = "null" -> Null
         [] distance_km.t = "number" ->
                Num(flooredRound(
                    MixMul(MixMul(travelAndDeployMinutes(distance_km.v,
                                                         roadFactor(disaster)),
                                  demandMultiplier(m, disaster), 100),
                           priorityMultiplier(m), 100)))
         [] OTHER -> NaN

\* lines 125-157: the enriched record
enrichedNeed(m, disaster) ==
    LET distance_km == needDistanceKm(m, disaster)
        eta_minutes == needEtaMinutes(m, disaster)
        urgency == NumAdd(Num(priorityScore(m)), etaScore(eta_minutes))
    IN [m EXCEPT !.distance_km = distance_km,
                 !.eta_minutes = eta_minutes,
                 !.eta = IF NotNullish(eta_minutes) THEN formatEta(eta_minutes)
                         ELSE m.eta,
                 !.urgency = urgency]

\* line 47: data.slice(0, 10)
MaxShelters == 10

\* lines 47-159: the list stored by setNeeds for the parsed lines `data`
enrichedNeeds(data, disaster) ==
    LET shelters == SubSeq(data, 1, IF Len(data) < MaxShelters THEN Len(data)
                                    ELSE MaxShelters)
    IN [i \in 1..Len(shelters) |-> enrichedNeed(mapped(shelters[i]), disaster)]

(***************************************************************************)
(* AffectedAreaPanel.fetchAffectedAreas: one element of                    *)
(* affected_area_requirements.json -> enriched area.  An area has the      *)
(* fields id, location, coordinates (a JavaScript value),                  *)
(* population_affected, priority_level and required_resources (the names   *)
(* of the requested resources).                                            *)
(***************************************************************************)
\* lines 462-466: the guard of the distance computation
areaHasCoordinates(area, disaster) ==
    /\ Truthy(area.coordinates)
    /\ TypeofNumber(disaster.lat)
    /\ TypeofNumber(disaster.lon)

\* line 468, const [lat, lon] = area.coordinates: destructuring a value
\* that is not iterable throws
destructureThrows(coordinates) == coordinates.t \notin {"array", "string"}

\* the k-th element that the destructuring binds
destructured(coordinates, k) ==
    IF k > Len(coordinates.s) THEN Undefined
    ELSE IF coordinates.t = "string" THEN Str(<<coordinates.s[k]>>)
    ELSE coordinates.s[k]

\* lines 467-479
areaDistanceKm(area, disaster) ==
    IF areaHasCoordinates(area, disaster)
       /\ ~destructureThrows(area.coordinates)
    THEN toFixed3(haversineKm(disaster.lat, disaster.lon,
                              destructured(area.coordinates, 1),
                              destructured(area.coordinates, 2)))
    ELSE Null

\* line 471, in hundredths
\* variant: priority level 4 sped up as much as level 5
areaPriorityMultiplier_Mutant(area) ==
    IF area.priority_level >= 4 THEN 85 ELSE 100

areaPriorityMultiplier(area) ==
    IF area.priority_level >= 5 THEN 85
    ELSE IF area.priority_level >= 4 THEN 95 ELSE 100

\* lines 471-475
\* variant: the priority multiplier is left out
areaEtaMinutes_Mutant(area, disaster) ==
    LET distance_km == areaDistanceKm(area, disaster)
    IN CASE distance_km.t = "null" -> Null
         [] distance_km.t = "number" ->
                Num(flooredRound(
                    travelAndDeployMinutes(distance_km.v,
                                           roadFactor(disaster))))
         [] OTHER -> NaN

areaEtaMinutes(area, disaster) ==
    LET distance_km == areaDistanceKm(area, disaster)
    IN CASE distance_km.t = "null" -> Null
         [] distance_km.t = "number" ->
                Num(flooredRound(
                    MixMul(travelAndDeployMinutes(distance_km.v,
                                                  roadFactor(disaster)),
                           areaPriorityMultiplier(area), 100)))
         [] OTHER -> NaN

\* lines 458-488: the enriched record
enrichedArea(area, disaster) ==
    LET eta_minutes == areaEtaMinutes(area, disaster)
    IN [id |-> area.id,
        location |-> area.location,
        coordinates |-> area.coordinates,
        population_affected |-> area.population_affected,
        priority_level |-> area.priority_level,
        required_resources |-> area.required_resources,
        distance_km |-> areaDistanceKm(area, disaster),
        eta_minutes |-> eta_minutes,
        eta |-> IF NotNullish(eta_minutes) THEN formatEta(eta_minutes)
                ELSE Undefined]

\* lines 458-490: the list stored by setAreas for the parsed array `data`
enrichedAreas(data, disaster) ==
    [i \in 1..Len(data) |-> enrichedArea(data[i], disaster)]

(***************************************************************************)
(* Array.prototype.sort with a comparator.  SortCompare turns a NaN        *)
(* result of the comparator into +0.  When the comparator is a consistent  *)
(* comparison function for the elements the sort is stable and its result  *)
(* is unique; otherwise the order is implementation-defined and every      *)
(* permutation is a possible result.                                       *)
(***************************************************************************)
\* the sign of the comparator's result as SortCompare sees it
SortCompare(v) ==
    CASE v.t = "NaN" -> 0
      [] v.t = "Infinity" -> 1
      [] v.t = "-Infinity" -> 0 - 1
      [] OTHER -> IF v.v < 0 THEN 0 - 1 ELSE IF v.v > 0 THEN 1 ELSE 0

ConsistentComparator(arr, Cmp(_, _)) ==
    LET idx == 1..Len(arr)
        signs == [i \in idx |-> [j \in idx |->
                        SortCompare(Cmp(arr[i], arr[j]))]]
        sc(i, j) == signs[i][j]
    IN /\ \A i \in idx : sc(i, i) = 0
       /\ \A i, j \in idx : /\ sc(i, j) = 0 => sc(j, i) = 0
                            /\ sc(i, j) < 0 => sc(j, i) > 0
       /\ \A i, j, k \in idx :
            /\ (sc(i, j) = 0 /\ sc(j, k) = 0) => sc(i, k) = 0
            /\ (sc(i, j) < 0 /\ sc(j, k) < 0) => sc(i, k) < 0
            /\ (sc(i, j) > 0 /\ sc(j, k) > 0) => sc(i, k) > 0

StableSort(arr, Cmp(_, _)) ==
    LET idx == 1..Len(arr)
        signs == [i \in idx |-> [j \in idx |->
                        SortCompare(Cmp(arr[i], arr[j]))]]
        sc(i, j) == signs[i][j]
        rank(i) == 1 + Cardinality({j \in idx :
                        sc(j, i) < 0 \/ (sc(j, i) = 0 /\ j < i)})
    IN [k \in idx |-> arr[CHOOSE i \in idx : rank(i) = k]]

PermutationsOf(arr) ==
    {[k \in 1..Len(arr) |-> arr[p[k]]] : p \in Permutations(1..Len(arr))}

\* the arrays that arr.sort(Cmp) can leave behind
SortOutcomes(arr, Cmp(_, _)) ==
    IF ConsistentComparator(arr, Cmp)
    THEN {StableSort(arr, Cmp)}
    ELSE PermutationsOf(arr)

\* x != null ? x : Number.POSITIVE_INFINITY
orInfinity(x) == IF NotNullish(x) THEN x ELSE Infinity

(***************************************************************************)
(* ResourcePanel.sortedFiltered (lines 174-201).  radiusKm is "" or a      *)
(* number (in metres, like the distances).                                 *)
(***************************************************************************)
NoRadius == Str(<<>>)

\* lines 177-180
\* variant: a shelter exactly at the radius is dropped
radiusFiltered_Mutant(needs, radiusKm) ==
    LET rkm == IF TypeofNumber(radiusKm) THEN radiusKm ELSE Null
    IN IF NotNullish(rkm) /\ rkm.t # "NaN" /\ ~NumLeq(rkm, Num(0))
       THEN SelectSeq(needs, LAMBDA n : TypeofNumber(n.distance_km)
                                        /\ NumLeq(n.distance_km, rkm)
                                        /\ n.distance_km # rkm)
       ELSE needs

radiusFiltered(needs, radiusKm) ==
    LET rkm == IF TypeofNumber(radiusKm) THEN radiusKm ELSE Null
    IN IF NotNullish(rkm) /\ rkm.t # "NaN" /\ ~NumLeq(rkm, Num(0))
       THEN SelectSeq(needs, LAMBDA n : TypeofNumber(n.distance_km)
                                        /\ NumLeq(n.distance_km, rkm))
       ELSE needs

\* lines 183-198: the comparator
needsComparator(sortBy, a, b) ==
    CASE sortBy = "eta" ->
            NumSub(orInfinity(a.eta_minutes), orInfinity(b.eta_minutes))
      [] sortBy = "distance" ->
            NumSub(orInfinity(a.distance_km), orInfinity(b.distance_km))
      [] OTHER -> NumSub(orInfinity(a.urgency), orInfinity(b.urgency))

\* the lists that the memo can hold for the given state
sortedFiltered(needs, sortBy, radiusKm) ==
    SortOutcomes(radiusFiltered(needs, radiusKm),
                 LAMBDA a, b : needsComparator(sortBy, a, b))

(***************************************************************************)
(* AffectedAreaPanel.sortedAreas (lines 505-527).                          *)
(***************************************************************************)
TopAreas == 5

\* lines 508-524: the comparator
\* variant: ties of priority_level broken by population ascending
areasComparator_Mutant(sortBy, a, b) ==
    CASE sortBy = "eta" ->
            NumSub(orInfinity(a.eta_minutes), orInfinity(b.eta_minutes))
      [] sortBy = "distance" ->
            NumSub(orInfinity(a.distance_km), orInfinity(b.distance_km))
      [] OTHER ->
            IF b.priority_level # a.priority_level
            THEN Num(b.priority_level - a.priority_level)
            ELSE Num(a.population_affected - b.population_affected)

areasComparator(sortBy, a, b) ==
    CASE sortBy = "eta" ->
            NumSub(orInfinity(a.eta_minutes), orInfinity(b.eta_minutes))
      [] sortBy = "distance" ->
            NumSub(orInfinity(a.distance_km), orInfinity(b.distance_km))
      [] OTHER ->
            IF b.priority_level # a.priority_level
            THEN Num(b.priority_level - a.priority_level)
            ELSE Num(b.population_affected - a.population_affected)

\* line 526: arr.slice(0, 5)
topSlice(arr) ==
    SubSeq(arr, 1, IF Len(arr) < TopAreas THEN Len(arr) ELSE TopAreas)

\* the lists that the memo can hold for the given state
sortedAreas(areas, sortBy) ==
    {topSlice(v) : v \in SortOutcomes(areas,
                            LAMBDA a, b : areasComparator(sortBy, a, b))}

(***************************************************************************)
(* State.  One behaviour renders one of the two panels over the data file  *)
(* that its fetch is served (the panels share no state).                   *)
(***************************************************************************)
VARIABLES
    disaster,         \* the DisasterContext returned by useDisaster()
    fixture,          \* [panel, file]: the rendered panel and its data file
    revision,         \* times the server has rewritten the data file
    now,              \* ms on the clock of the page's timers
    needs,            \* ResourcePanel: useState<Need[]>([])
    sortBy,           \* ResourcePanel: "urgency" | "eta" | "distance"
    radiusKm,         \* ResourcePanel: number | ""
    loading,          \* ResourcePanel
    error,            \* ResourcePanel: string | null
    shelterPhase,     \* ResourcePanel: "created" | "mounted" | "unmounted"
    shelterIssued,    \* number of fetchNeeds calls so far
    shelterInFlight,  \* calls of fetchNeeds that await their response
    shelterAsked,     \* per call of fetchNeeds: the file revision at the call
    shelterResolved,  \* loaded responses: [last, newest], each [id, revision]
    shelterInterval,  \* the setInterval timer: [armed, dueAt]
    shelterPolled,    \* times the interval has fired
    areas,            \* AffectedAreaPanel: useState<AffectedArea[]>([])
    areaSortBy,       \* AffectedAreaPanel: "priority" | "eta" | "distance"
    areaLoading,      \* AffectedAreaPanel
    areaError,        \* AffectedAreaPanel: string | null
    areaPhase,        \* AffectedAreaPanel: "created" | "mounted" | "unmounted"
    areaIssued,       \* number of fetchAffectedAreas calls so far
    areaInFlight,     \* calls of fetchAffectedAreas that await their response
    areaAsked,        \* per call: the file revision at the call
    areaResolved,     \* loaded responses: [last, newest], each [id, revision]
    areaInterval,     \* the setInterval timer: [armed, dueAt]
    areaPolled,       \* times the interval has fired
    messages,         \* ChatInterface: useState<Message[]>([greeting])
    input,            \* ChatInterface: the text of the input field
    isLoading,        \* ChatInterface
    chatRequest,      \* handleSend in progress: [active, prompt, attempt, json]
    toasts,           \* number of destructive toasts shown by handleSend
    matchDialogOpen,  \* AffectedAreaPanel: the match dialog is open
    matchResult,      \* AffectedAreaPanel: useState<any>(null)
    matchLoading,     \* AffectedAreaPanel
    matchIssued,      \* number of handleMatchResources calls so far
    matchInFlight,    \* calls of handleMatchResources that await the API
    orchestrator,     \* the assistant orchestrator's request:
                      \* [stage, message, invocation, executed, result]
    mapShelters,      \* MapView: useState<any[]>([]), the state `shelters`
    loadingShelters,  \* MapView
    shelterError,     \* MapView: string | null
    mapPhase,         \* MapView: "created" | "mounted" | "unmounted"
    mounted,          \* MapView: the flag of the effect's closure
    fetchShelters     \* MapView: [at, body], the position of fetchShelters

shelterVars ==
    <<needs, sortBy, radiusKm, loading, error,
      shelterPhase, shelterIssued, shelterInFlight,
      shelterAsked, shelterResolved, shelterInterval, shelterPolled>>

areaVars ==
    <<areas, areaSortBy, areaLoading, areaError,
      areaPhase, areaIssued, areaInFlight,
      areaAsked, areaResolved, areaInterval, areaPolled>>

\* the data file on the server and the clock
worldVars == <<fixture, revision, now>>

chatVars == <<messages, input, isLoading, chatRequest, toasts>>

matchVars ==
    <<matchDialogOpen, matchResult, matchLoading, matchIssued, matchInFlight>>

mapVars ==
    <<mapShelters, loadingShelters, shelterError, mapPhase, mounted,
      fetchShelters>>

vars ==
    <<disaster, worldVars, shelterVars, areaVars, chatVars, matchVars,
      orchestrator, mapVars>>

(***************************************************************************)
(* Bounds and input data.                                                  *)
(***************************************************************************)
\* fetches that one panel issues in a behaviour
MaxFetches == 3

\* records in a data file of the panel life cycle (Spec)
MaxPanelRecords == 1

\* times the server rewrites the data file in a behaviour
MaxRevisions == 1

\* records in a data file of one fetch cycle (SpecEnrich)
MaxRecords == 3

\* records in a long affected-area file (SpecEnrich)
MaxLongAreas == 6

\* pieces (delimiters, tokens, words) of a scanned text (SpecTools)
MaxToolPieces == 3

\* clicks on a Match Resources button (SpecMatch)
MaxMatchRequests == 2

\* shelters in an answer of the shelter API (SpecMap)
MaxMapShelters == 3

\* messages sent in a conversation (SpecChat)
MaxSends == 2

\* pieces (tags, words, blanks) of a reply text (SpecReply)
MaxPieces == 4

\* single records placed at 0..LadderRungs steps of LadderStep millidegrees
\* south of the disaster center (SpecEnrich)
LadderRungs == 40

LadderStep == 5

SeqsUpTo(S, n) == UNION {[1..k -> S] : k \in 0..n}

SeqsBetween(S, m, n) == UNION {[1..k -> S] : k \in m..n}

Water == Str(<<"W", "a", "t", "e", "r">>)

Cots == Str(<<"C", "o", "t", "s">>)

Details(digits) == Str(PostCapKey \o digits)

Shelter(name, latitude, longitude, details, available_items) ==
    [shelter_name |-> name, location |-> "Washington DC",
     details |-> details, available_items |-> available_items,
     latitude |-> latitude, longitude |-> longitude]

\* at the disaster center, high capacity, an item that is needed
ShelterAtCenter ==
    Shelter("Center", Num(DisasterLat), Num(DisasterLon),
            Details(<<"5", "0", "0">>), Arr(<<Water>>))

\* about 2 km away, medium capacity, items given as one string
ShelterNear ==
    Shelter("Near", Num(DisasterLat - 18), Num(DisasterLon),
            Details(<<"3", "0", "0">>), Cots)

\* about 6 km away, no details and no items
ShelterMid ==
    Shelter("Mid", Num(DisasterLat - 54), Num(DisasterLon),
            Undefined, Undefined)

\* 100 degrees of latitude away, low capacity, an item that is needed
ShelterFar ==
    Shelter("Far", Num(DisasterLat - 100000), Num(DisasterLon),
            Undefined, Arr(<<Cots, Water>>))

\* no latitude
ShelterNoLat ==
    Shelter("NoLat", Undefined, Num(DisasterLon),
            Details(<<"5", "0", "0">>), Arr(<<Water>>))

\* a latitude that is not a number
ShelterBadLat ==
    Shelter("BadLat", Str(<<"n", "/", "a">>), Num(DisasterLon),
            Details(<<"3", "0", "0">>), Arr(<<Cots>>))

ShelterRecords ==
    {ShelterAtCenter, ShelterNear, ShelterMid, ShelterFar,
     ShelterNoLat, ShelterBadLat}

Area(id, coordinates, population_affected, priority_level) ==
    [id |-> id, location |-> "Washington DC", coordinates |-> coordinates,
     population_affected |-> population_affected,
     priority_level |-> priority_level,
     required_resources |-> IF priority_level = 4 THEN <<Cots>>
                            ELSE <<Water, Cots>>]

AreaAtCenter ==
    Area("center", Arr(<<Num(DisasterLat), Num(DisasterLon)>>), 3100, 5)

AreaNear ==
    Area("near", Arr(<<Num(DisasterLat - 18), Num(DisasterLon)>>), 2800, 5)

AreaMid ==
    Area("mid", Arr(<<Num(DisasterLat - 54), Num(DisasterLon)>>), 5000, 4)

AreaFar ==
    Area("far", Arr(<<Num(DisasterLat - 100000), Num(DisasterLon)>>), 700, 3)

\* no coordinates
AreaNoCoords == Area("nocoords", Undefined, 1200, 3)

\* coordinates whose latitude is not a number
AreaBadCoords ==
    Area("badcoords", Arr(<<Str(<<"n", "/", "a">>), Num(DisasterLon)>>), 900, 4)

\* coordinates that are not a pair
AreaScalarCoords == Area("scalar", Num(7), 400, 3)

AreaRecords ==
    {AreaAtCenter, AreaNear, AreaMid, AreaFar,
     AreaNoCoords, AreaBadCoords, AreaScalarCoords}

LongAreaRecords == {AreaAtCenter, AreaNear, AreaMid}

\* shelters at increasing distances, of high and of low capacity, with
\* and without an item that is needed
LadderShelters ==
    {Shelter("Ladder", Num(DisasterLat - k * LadderStep), Num(DisasterLon),
             details, items) :
        k \in 0..LadderRungs,
        details \in {Undefined, Details(<<"5", "0", "0">>)},
        items \in {Undefined, Arr(<<Water>>)}}

\* areas at increasing distances, of every priority band
LadderAreas ==
    {Area("ladder",
          Arr(<<Num(DisasterLat - k * LadderStep), Num(DisasterLon)>>),
          1000, level) :
        k \in 0..LadderRungs, level \in 3..5}

\* a line of the shelter file: JSON text that parses to `value`, or not
Line(value) == [json |-> TRUE, value |-> value]

BadLine == [json |-> FALSE, value |-> ShelterMid]

\* the line `null`: JSON text that parses to null
NullLine == Line(Null)

\* the body of the area file: JSON text that parses to the array `value`
Body(value) == [json |-> TRUE, value |-> value]

BadBody == [json |-> FALSE, value |-> <<>>]

ShelterPanel == "ResourcePanel"

AreaPanel == "AffectedAreaPanel"

Fixture(panel, file) == [panel |-> panel, file |-> file]

ShelterFiles(records, n) == SeqsUpTo({Line(r) : r \in records}, n)

\* the data files of the panel life cycle: records with and without
\* usable coordinates, the line `null`, text that is not JSON, and the
\* empty file
PanelFixtures ==
    {Fixture(ShelterPanel, f) :
        f \in SeqsUpTo({Line(ShelterNear), Line(ShelterBadLat), NullLine,
                        BadLine},
                       MaxPanelRecords)}
    \cup {Fixture(AreaPanel, b) :
        b \in {BadBody}
              \cup {Body(a) : a \in SeqsUpTo({AreaNear, AreaScalarCoords},
                                             MaxPanelRecords)}}

\* the data files of the panel life cycle in which the server rewrites
\* the file
RaceFixtures ==
    {Fixture(ShelterPanel, <<Line(ShelterNear)>>),
     Fixture(AreaPanel, Body(<<AreaNear>>))}

EnrichFixtures ==
    {Fixture(ShelterPanel, f) : f \in ShelterFiles(ShelterRecords, MaxRecords)}
    \cup {Fixture(AreaPanel, Body(a)) : a \in SeqsUpTo(AreaRecords, MaxRecords)}
    \cup {Fixture(AreaPanel, Body(a)) :
            a \in SeqsBetween(LongAreaRecords, TopAreas + 1, MaxLongAreas)}
    \cup {Fixture(ShelterPanel, <<Line(r)>>) : r \in LadderShelters}
    \cup {Fixture(AreaPanel, Body(<<a>>)) : a \in LadderAreas}

DisasterContexts ==
    {[DEFAULT_DISASTER EXCEPT !.severity = s] : s \in Severities}
    \cup {[DEFAULT_DISASTER EXCEPT !.lat = Undefined]}

SortKeys == {"urgency", "eta", "distance"}

AreaSortKeys == {"priority", "eta", "distance"}

\* radius inputs: unset, 5 km, 2.002 km (the distance of ShelterNear), 0, NaN
Radii == {NoRadius, Num(5000), Num(2002), Num(0), NaN}

(***************************************************************************)
(* The ways an awaited fetch can settle: the promise rejects (network      *)
(* error) or resolves with a response of some HTTP status; a response of   *)
(* status 200 carries the data file.                                       *)
(***************************************************************************)
Rejected == [kind |-> "rejected", status |-> 0]

Response(status) == [kind |-> "response", status |-> status]

Outcomes == {Rejected, Response(200), Response(404), Response(500)}

\* res.ok
ok(outcome) == outcome.kind = "response" /\ outcome.status \in 200..299

FailedOutcomes == {o \in Outcomes : ~ok(o)}

statusText(status) ==
    CASE status = 404 -> "404 Not Found"
      [] status = 500 -> "500 Internal Server Error"
      [] OTHER -> "200 OK"

\* e?.message || String(e)
errorMessage(message) ==
    IF message # "" THEN Str(<<message>>) ELSE Str(<<"Error">>)

(***************************************************************************)
(* ResourcePanel                                                           *)
(***************************************************************************)
\* lines 42-44: text.trim().split('\n') -- the empty text is one empty
\* line, which JSON.parse rejects
lines(file) == IF file = <<>> THEN <<BadLine>> ELSE file

\* lines 38-55: the exception that reaches the catch block, Null when the
\* try block completes; s.details on line 55 throws when one of the first
\* 10 lines has parsed to null
fetchNeedsThrown(outcome, file) ==
    CASE outcome.kind = "rejected" -> errorMessage("Failed to fetch")
      [] ~ok(outcome) ->
            Str(<<"Failed to load shelters: ", statusText(outcome.status)>>)
      [] \E i \in 1..Len(lines(file)) : ~lines(file)[i].json ->
            errorMessage("Unexpected token in JSON")
      [] \E i \in 1..Len(lines(file)) :
            i <= MaxShelters /\ lines(file)[i].value = Null ->
            errorMessage("Cannot read properties of null")
      [] OTHER -> Null

\* line 44: data = lines.map(line => JSON.parse(line))
parsedLines(file) == [i \in 1..Len(lines(file)) |-> lines(file)[i].value]

\* lines 159-161: the list after the fetch has settled
\* variant: a failed fetch clears the list
needsAfterFetch_Mutant(outcome, file, old) ==
    IF fetchNeedsThrown(outcome, file) = Null
    THEN enrichedNeeds(parsedLines(file), disaster)
    ELSE <<>>

needsAfterFetch(outcome, file, old) ==
    IF fetchNeedsThrown(outcome, file) = Null
    THEN enrichedNeeds(parsedLines(file), disaster)
    ELSE old

\* lines 160-161: the error after the fetch has settled
errorAfterFetch(outcome, file, old) ==
    IF fetchNeedsThrown(outcome, file) = Null
    THEN old
    ELSE fetchNeedsThrown(outcome, file)

\* the data file as the server holds it after k rewrites; a rewrite adds
\* the record of a shelter (an area) at the centre
served(fix, k) ==
    IF fix.panel = ShelterPanel
    THEN fix.file \o [i \in 1..k |-> Line(ShelterAtCenter)]
    ELSE IF fix.file.json
         THEN Body(fix.file.value \o [i \in 1..k |-> AreaAtCenter])
         ELSE fix.file

\* line 170: the period of setInterval, in ms
PollIntervalMs == 60000

NoInterval == [armed |-> FALSE, dueAt |-> 0]

\* setInterval(f, 60_000) called at the time `at`
Interval(at) == [armed |-> TRUE, dueAt |-> at + PollIntervalMs]

\* the responses that a panel has loaded so far while mounted: the one
\* that settled last and the one of the newest call, each with the call's
\* number and the file revision it carried
Loaded(id, k) == [id |-> id, revision |-> k]

NoneResolved == [last |-> Loaded(0, 0), newest |-> Loaded(0, 0)]

resolvedAfter(resolved, id, k, loaded) ==
    IF loaded
    THEN [last |-> Loaded(id, k),
          newest |-> IF id > resolved.newest.id
                     THEN Loaded(id, k) ELSE resolved.newest]
    ELSE resolved

\* lines 33-38: fetchNeeds up to its first await
fetchNeedsStarts ==
    /\ shelterIssued < MaxFetches
    /\ loading' = TRUE
    /\ error' = Null
    /\ shelterIssued' = shelterIssued + 1
    /\ shelterInFlight' = shelterInFlight \cup {shelterIssued + 1}
    /\ shelterAsked' = Append(shelterAsked, revision)
    /\ UNCHANGED <<needs, sortBy, radiusKm, shelterResolved>>

\* lines 167-170: the mount effect calls fetchNeeds and starts the interval
MountResourcePanel ==
    /\ fixture.panel = ShelterPanel
    /\ shelterPhase = "created"
    /\ shelterPhase' = "mounted"
    /\ fetchNeedsStarts
    /\ shelterInterval' = Interval(now)
    /\ UNCHANGED <<chatVars, matchVars, orchestrator, mapVars>>
    /\ UNCHANGED <<disaster, worldVars, shelterPolled, areaVars>>

\* line 170: a tick of setInterval(fetchNeeds, 60_000)
PollShelters ==
    /\ shelterInterval.armed
    /\ now = shelterInterval.dueAt
    /\ fetchNeedsStarts
    /\ shelterInterval' = Interval(now)
    /\ shelterPolled' = shelterPolled + 1
    /\ UNCHANGED <<chatVars, matchVars, orchestrator, mapVars>>
    /\ UNCHANGED <<disaster, worldVars, shelterPhase, areaVars>>

\* line 210: the button calls fetchNeeds
RefreshShelters ==
    /\ shelterPhase = "mounted"
    /\ fetchNeedsStarts
    /\ UNCHANGED <<chatVars, matchVars, orchestrator, mapVars>>
    /\ UNCHANGED <<disaster, worldVars, shelterPhase, shelterInterval,
                   shelterPolled, areaVars>>

\* lines 159-163: the state updates of a settled fetchNeeds take effect
\* whichever call they belong to, unless the panel is gone
\* variant: only the response to the newest settled call is applied
stateUpdateApplies_Mutant(id, phase, resolved) ==
    /\ phase = "mounted"
    /\ resolved.newest.id < id

stateUpdateApplies(id, phase, resolved) == phase = "mounted"

\* lines 38-164: the awaited fetch of call `id` settles with `outcome`, a
\* 200 response carrying revision k of the data file, and fetchNeeds runs
\* to its end
FetchNeedsDelivers(id, outcome, k) ==
    /\ id \in shelterInFlight
    /\ k \in shelterAsked[id]..revision
    /\ shelterInFlight' = shelterInFlight \ {id}
    /\ shelterResolved' =
         IF shelterPhase = "mounted"
         THEN resolvedAfter(shelterResolved, id, k,
                    fetchNeedsThrown(outcome, served(fixture, k)) = Null)
         ELSE shelterResolved
    /\ IF stateUpdateApplies(id, shelterPhase, shelterResolved)
       THEN /\ needs' = needsAfterFetch(outcome, served(fixture, k), needs)
            /\ error' = errorAfterFetch(outcome, served(fixture, k), error)
            /\ loading' = FALSE
       ELSE UNCHANGED <<needs, error, loading>>
    /\ UNCHANGED <<chatVars, matchVars, orchestrator, mapVars>>
    /\ UNCHANGED <<disaster, worldVars, sortBy, radiusKm, shelterPhase,
                   shelterIssued, shelterAsked, shelterInterval,
                   shelterPolled, areaVars>>

FetchNeedsSettles(id, outcome) ==
    \E k \in 0..revision : FetchNeedsDelivers(id, outcome, k)

SettleFetchNeeds ==
    \E id \in shelterInFlight : \E outcome \in Outcomes :
        FetchNeedsSettles(id, outcome)

\* line 171: the cleanup of the effect clears the interval
\* variant: the cleanup leaves the interval running
UnmountResourcePanel_Mutant ==
    /\ shelterPhase = "mounted"
    /\ shelterPhase' = "unmounted"
    /\ UNCHANGED <<chatVars, matchVars, orchestrator, mapVars>>
    /\ UNCHANGED <<disaster, worldVars, needs, sortBy, radiusKm, loading,
                   error, shelterIssued, shelterInFlight, shelterAsked,
                   shelterResolved, shelterInterval, shelterPolled, areaVars>>

UnmountResourcePanel ==
    /\ shelterPhase = "mounted"
    /\ shelterPhase' = "unmounted"
    /\ shelterInterval' = NoInterval
    /\ UNCHANGED <<chatVars, matchVars, orchestrator, mapVars>>
    /\ UNCHANGED <<disaster, worldVars, needs, sortBy, radiusKm, loading,
                   error, shelterIssued, shelterInFlight, shelterAsked,
                   shelterResolved, shelterPolled, areaVars>>

(***************************************************************************)
(* AffectedAreaPanel                                                       *)
(***************************************************************************)
\* lines 424-428: the exception that reaches the catch block, Null when
\* the try block completes
fetchAffectedAreasThrown(outcome, body) ==
    CASE outcome.kind = "rejected" -> errorMessage("Failed to fetch")
      [] ~ok(outcome) ->
            Str(<<"Failed to load affected areas: ", outcome.status>>)
      [] ~body.json -> errorMessage("Unexpected token in JSON")
      [] OTHER -> Null

\* lines 490-492: the list after the fetch has settled
areasAfterFetch(outcome, body, old) ==
    IF fetchAffectedAreasThrown(outcome, body) = Null
    THEN enrichedAreas(body.value, disaster)
    ELSE old

\* lines 491-492: the error after the fetch has settled
areaErrorAfterFetch(outcome, body, old) ==
    IF fetchAffectedAreasThrown(outcome, body) = Null
    THEN old
    ELSE fetchAffectedAreasThrown(outcome, body)

\* lines 419-424: fetchAffectedAreas up to its first await
fetchAffectedAreasStarts ==
    /\ areaIssued < MaxFetches
    /\ areaLoading' = TRUE
    /\ areaError' = Null
    /\ areaIssued' = areaIssued + 1
    /\ areaInFlight' = areaInFlight \cup {areaIssued + 1}
    /\ areaAsked' = Append(areaAsked, revision)
    /\ UNCHANGED <<areas, areaSortBy, areaResolved>>

\* lines 498-501
MountAffectedAreaPanel ==
    /\ fixture.panel = AreaPanel
    /\ areaPhase = "created"
    /\ areaPhase' = "mounted"
    /\ fetchAffectedAreasStarts
    /\ areaInterval' = Interval(now)
    /\ UNCHANGED <<chatVars, matchVars, orchestrator, mapVars>>
    /\ UNCHANGED <<disaster, worldVars, areaPolled, shelterVars>>

\* line 501: a tick of setInterval(fetchAffectedAreas, 60_000)
PollAreas ==
    /\ areaInterval.armed
    /\ now = areaInterval.dueAt
    /\ fetchAffectedAreasStarts
    /\ areaInterval' = Interval(now)
    /\ areaPolled' = areaPolled + 1
    /\ UNCHANGED <<chatVars, matchVars, orchestrator, mapVars>>
    /\ UNCHANGED <<disaster, worldVars, areaPhase, shelterVars>>

\* line 542: the Refresh button
RefreshAreas ==
    /\ areaPhase = "mounted"
    /\ fetchAffectedAreasStarts
    /\ UNCHANGED <<chatVars, matchVars, orchestrator, mapVars>>
    /\ UNCHANGED <<disaster, worldVars, areaPhase, areaInterval,
                   areaPolled, shelterVars>>

\* lines 424-495: the awaited fetch of call `id` settles with `outcome`, a
\* 200 response carrying revision k of the data file
FetchAffectedAreasDelivers(id, outcome, k) ==
    /\ id \in areaInFlight
    /\ k \in areaAsked[id]..revision
    /\ areaInFlight' = areaInFlight \ {id}
    /\ areaResolved' =
         IF areaPhase = "mounted"
         THEN resolvedAfter(areaResolved, id, k,
                    fetchAffectedAreasThrown(outcome, served(fixture, k))
                        = Null)
         ELSE areaResolved
    /\ IF stateUpdateApplies(id, areaPhase, areaResolved)
       THEN /\ areas' = areasAfterFetch(outcome, served(fixture, k), areas)
            /\ areaError' = areaErrorAfterFetch(outcome, served(fixture, k),
                                                areaError)
            /\ areaLoading' = FALSE
       ELSE UNCHANGED <<areas, areaError, areaLoading>>
    /\ UNCHANGED <<chatVars, matchVars, orchestrator, mapVars>>
    /\ UNCHANGED <<disaster, worldVars, areaSortBy, areaPhase, areaIssued,
                   areaAsked, areaInterval, areaPolled, shelterVars>>

FetchAffectedAreasSettles(id, outcome) ==
    \E k \in 0..revision : FetchAffectedAreasDelivers(id, outcome, k)

SettleFetchAffectedAreas ==
    \E id \in areaInFlight : \E outcome \in Outcomes :
        FetchAffectedAreasSettles(id, outcome)

\* line 502
UnmountAffectedAreaPanel ==
    /\ areaPhase = "mounted"
    /\ areaPhase' = "unmounted"
    /\ areaInterval' = NoInterval
    /\ UNCHANGED <<chatVars, matchVars, orchestrator, mapVars>>
    /\ UNCHANGED <<disaster, worldVars, areas, areaSortBy, areaLoading,
                   areaError, areaIssued, areaInFlight, areaAsked,
                   areaResolved, areaPolled, shelterVars>>

(***************************************************************************)
(* The world around the panels: the server rewrites the data file, and     *)
(* time passes until the next timer is due.                                *)
(***************************************************************************)
ReviseDataFile ==
    /\ revision < MaxRevisions
    /\ revision' = revision + 1
    /\ UNCHANGED <<chatVars, matchVars, orchestrator, mapVars>>
    /\ UNCHANGED <<disaster, fixture, now, shelterVars, areaVars>>

\* the times at which an armed interval fires next
dueTimes ==
    {t \in {shelterInterval.dueAt} : shelterInterval.armed}
    \cup {t \in {areaInterval.dueAt} : areaInterval.armed}

AdvanceTime ==
    /\ dueTimes # {}
    /\ \A t \in dueTimes : now < t
    /\ now' = CHOOSE t \in dueTimes : \A u \in dueTimes : t <= u
    /\ UNCHANGED <<chatVars, matchVars, orchestrator, mapVars>>
    /\ UNCHANGED <<disaster, fixture, revision, shelterVars, areaVars>>

(***************************************************************************)
(* ChatInterface.handleSend.  A message is [role, content, thinking]:      *)
(* content is a sequence of characters, thinking a JavaScript value (a     *)
(* string or undefined).  A response body is [json, response, reply]: json *)
(* tells what r.json() resolved to ("object", "null" or "other"), and      *)
(* response and reply are the values of the two fields of an object.       *)
(***************************************************************************)
\* lines 44-49: the greeting
Greeting ==
    <<"H", "e", "l", "l", "o", "!", " ", "I", "'", "m", " ", "t", "h", "e",
      " ", "D", "i", "s", "a", "s", "t", "e", "r", "A", "I", " ", "R", "e",
      "s", "p", "o", "n", "s", "e", " ", "C", "o", "o", "r", "d", "i", "n",
      "a", "t", "o", "r", ".", " ", "I", " ", "c", "a", "n", " ", "h", "e",
      "l", "p", " ", "y", "o", "u", " ", "w", "i", "t", "h", " ", "s", "i",
      "t", "u", "a", "t", "i", "o", "n", " ", "a", "n", "a", "l", "y", "s",
      "i", "s", ",", " ", "r", "e", "s", "o", "u", "r", "c", "e", " ", "c",
      "o", "o", "r", "d", "i", "n", "a", "t", "i", "o", "n", ",", " ", "a",
      "n", "d", " ", "r", "e", "a", "l", "-", "t", "i", "m", "e", " ", "i",
      "n", "t", "e", "l", "l", "i", "g", "e", "n", "c", "e", ".", " ", "W",
      "h", "a", "t", " ", "w", "o", "u", "l", "d", " ", "y", "o", "u", " ",
      "l", "i", "k", "e", " ", "t", "o", " ", "k", "n", "o", "w", "?">>

\* line 132: the content of the fallback message
FallbackContent ==
    <<"I", "'", "m", " ", "u", "n", "a", "b", "l", "e", " ", "t", "o", " ",
      "r", "e", "a", "c", "h", " ", "t", "h", "e", " ", "r", "e", "m", "o",
      "t", "e", " ", "s", "e", "r", "v", "i", "c", "e", " ", "r", "i", "g",
      "h", "t", " ", "n", "o", "w", ".", " ", "T", "r", "y", " ", "a", "g",
      "a", "i", "n", " ", "l", "a", "t", "e", "r", " ", "o", "r", " ", "c",
      "o", "n", "f", "i", "g", "u", "r", "e", " ", "a", " ", "b", "a", "c",
      "k", "e", "n", "d", " ", "a", "t", " ", "/", "a", "p", "i", "/", "d",
      "i", "s", "a", "s", "t", "e", "r", "-", "c", "h", "a", "t", ".">>

\* line 105: `(offline) I heard: ${prompt}`
OfflinePrefix ==
    <<"(", "o", "f", "f", "l", "i", "n", "e", ")", " ", "I", " ", "h", "e",
      "a", "r", "d", ":", " ">>

OpenTag == <<"<", "t", "h", "i", "n", "k", ">">>

CloseTag == <<"<", "/", "t", "h", "i", "n", "k", ">">>

Message(role, content, thinking) ==
    [role |-> role, content |-> content, thinking |-> thinking]

IsWhiteSpace(c) == c \in {" ", "\n", "\t"}

\* chars.trim()
trim(chars) ==
    LET inked == {i \in 1..Len(chars) : ~IsWhiteSpace(chars[i])}
    IN IF inked = {} THEN <<>>
       ELSE SubSeq(chars,
                   CHOOSE i \in inked : \A j \in inked : i <= j,
                   CHOOSE i \in inked : \A j \in inked : j <= i)

\* `key` occurs in `chars` at position i
OccursAt(chars, i, key) ==
    /\ i + Len(key) - 1 <= Len(chars)
    /\ \A j \in 1..Len(key) : chars[i + j - 1] = key[j]

\* lines 109, 113: the first match of /<think>([\s\S]*?)<\/think>/, as
\* [found, open, close]: the positions of the opening and the closing tag
thinkMatch(reply) ==
    LET closes(i) == {j \in (i + Len(OpenTag))..Len(reply) :
                         OccursAt(reply, j, CloseTag)}
        opens == {i \in 1..Len(reply) :
                     OccursAt(reply, i, OpenTag) /\ closes(i) # {}}
    IN IF opens = {} THEN [found |-> FALSE, open |-> 0, close |-> 0]
       ELSE LET i == CHOOSE k \in opens : \A l \in opens : k <= l
            IN [found |-> TRUE,
                open |-> i,
                close |-> CHOOSE k \in closes(i) : \A l \in closes(i) : k <= l]

\* thinkMatch[1]
thinkCapture(reply) ==
    LET at == thinkMatch(reply)
    IN SubSeq(reply, at.open + Len(OpenTag), at.close - 1)

\* line 113: reply.replace(/<think>[\s\S]*?<\/think>/, "")
withoutThink(reply) ==
    LET at == thinkMatch(reply)
    IN SubSeq(reply, 1, at.open - 1)
       \o SubSeq(reply, at.close + Len(CloseTag), Len(reply))

ChatBody(json, response, reply) ==
    [json |-> json, response |-> response, reply |-> reply]

NoJson == ChatBody("none", Undefined, Undefined)

NoChatRequest ==
    [active |-> FALSE, prompt |-> <<>>, attempt |-> 0, json |-> NoJson]

\* lines 88-96: /api/disaster-chat, /assistant/converse, /chat
ChatEndpoints == 3

\* line 105: (json && (json.response || json.reply)) || `(offline) ...`
normalizedReply(json, prompt) ==
    LET picked == IF json.json # "object" THEN Undefined
                  ELSE IF Truthy(json.response) THEN json.response
                  ELSE json.reply
    IN IF Truthy(picked) THEN picked ELSE Str(OfflinePrefix \o prompt)

\* lines 107-119: the assistant message built from a reply string
assistantMessage(reply) ==
    IF thinkMatch(reply).found
    THEN LET thinking == trim(thinkCapture(reply))
         IN Message("assistant", trim(withoutThink(reply)),
                    IF thinking # <<>> THEN Str(thinking) ELSE Undefined)
    ELSE Message("assistant", reply, Undefined)

\* lines 186, 195: the input field is disabled while a reply is awaited
TypeInput(text) ==
    /\ ~isLoading
    /\ input' = text
    /\ UNCHANGED <<messages, isLoading, chatRequest, toasts>>
    /\ UNCHANGED <<matchVars, orchestrator, mapVars>>
    /\ UNCHANGED <<disaster, worldVars, shelterVars, areaVars>>

\* lines 58-64, 195, 198: up to the first await
HandleSend ==
    /\ ~isLoading
    /\ trim(input) # <<>>
    /\ Len(messages) < 1 + 2 * MaxSends
    /\ messages' = Append(messages, Message("user", input, Undefined))
    /\ input' = <<>>
    /\ isLoading' = TRUE
    /\ chatRequest' = [active |-> TRUE, prompt |-> input, attempt |-> 1,
                       json |-> NoJson]
    /\ UNCHANGED toasts
    /\ UNCHANGED <<matchVars, orchestrator, mapVars>>
    /\ UNCHANGED <<disaster, worldVars, shelterVars, areaVars>>

\* lines 122-138: catch and finally
\* variant: the loading flag is left set
HandleSendCatches_Mutant(json) ==
    /\ toasts' = toasts + 1
    /\ messages' = Append(messages,
                          Message("assistant", FallbackContent, Undefined))
    /\ chatRequest' = [chatRequest EXCEPT !.active = FALSE, !.json = json]
    /\ UNCHANGED <<input, isLoading>>

HandleSendCatches(json) ==
    /\ toasts' = toasts + 1
    /\ messages' = Append(messages,
                          Message("assistant", FallbackContent, Undefined))
    /\ isLoading' = FALSE
    /\ chatRequest' = [chatRequest EXCEPT !.active = FALSE, !.json = json]
    /\ UNCHANGED input

\* lines 74-101: tryFetch throws (network error or status not ok); the
\* next endpoint is tried, and the error of the last one is rethrown
EndpointFails ==
    /\ chatRequest.active
    /\ IF chatRequest.attempt < ChatEndpoints
       THEN /\ chatRequest' = [chatRequest EXCEPT !.attempt = @ + 1]
            /\ UNCHANGED <<messages, input, isLoading, toasts>>
       ELSE HandleSendCatches(NoJson)
    /\ UNCHANGED <<matchVars, orchestrator, mapVars>>
    /\ UNCHANGED <<disaster, worldVars, shelterVars, areaVars>>

\* variant: the assistant message takes the place of the user message
EndpointResponds_Mutant(json) ==
    /\ chatRequest.active
    /\ LET reply == normalizedReply(json, chatRequest.prompt)
       IN IF reply.t = "string"
          THEN /\ messages' = [messages EXCEPT ![Len(messages)] =
                                   assistantMessage(reply.s)]
               /\ isLoading' = FALSE
               /\ chatRequest' = [chatRequest EXCEPT !.active = FALSE,
                                                     !.json = json]
               /\ UNCHANGED <<input, toasts>>
          ELSE HandleSendCatches(json)
    /\ UNCHANGED <<matchVars, orchestrator, mapVars>>
    /\ UNCHANGED <<disaster, worldVars, shelterVars, areaVars>>

\* lines 104-121, 137: an endpoint answers with `json`; reply.match throws
\* a TypeError when the reply is not a string
EndpointResponds(json) ==
    /\ chatRequest.active
    /\ LET reply == normalizedReply(json, chatRequest.prompt)
       IN IF reply.t = "string"
          THEN /\ messages' = Append(messages, assistantMessage(reply.s))
               /\ isLoading' = FALSE
               /\ chatRequest' = [chatRequest EXCEPT !.active = FALSE,
                                                     !.json = json]
               /\ UNCHANGED <<input, toasts>>
          ELSE HandleSendCatches(json)
    /\ UNCHANGED <<matchVars, orchestrator, mapVars>>
    /\ UNCHANGED <<disaster, worldVars, shelterVars, areaVars>>

\* texts typed into the input field
ChatInputs == {<<>>, <<" ">>, <<"h", "i">>, <<" ", "h", "i", "\n">>}

Ok == <<"o", "k">>

\* bodies of a conversation
ChatBodies ==
    {ChatBody("object", Undefined, Undefined),
     ChatBody("null", Undefined, Undefined),
     ChatBody("other", Undefined, Undefined),
     ChatBody("object", Str(Ok), Undefined),
     ChatBody("object", Undefined, Str(Ok)),
     ChatBody("object", Str(<<>>), Str(Ok)),
     ChatBody("object", Num(5), Undefined),
     ChatBody("object", Arr(<<>>), Str(Ok)),
     ChatBody("object", Str(OpenTag \o Ok \o CloseTag \o Ok), Undefined)}

\* the pieces that reply texts are made of
ReplyPieces == {OpenTag, CloseTag, Ok, <<" ">>}

RECURSIVE Flatten(_)
Flatten(pieces) ==
    IF pieces = <<>> THEN <<>> ELSE Head(pieces) \o Flatten(Tail(pieces))

ReplyTexts == {Flatten(p) : p \in SeqsBetween(ReplyPieces, 0, MaxPieces)}

\* every body of one reply
ReplyBodies ==
    ChatBodies
    \cup {ChatBody("object", Str(text), Undefined) : text \in ReplyTexts}
    \cup {ChatBody("object", Undefined, Str(text)) : text \in ReplyTexts}

(***************************************************************************)
(* AffectedAreaPanel.handleMatchResources and the match dialog.  A         *)
(* MatchResult is [success, matches, affected_area]; a match is            *)
(* [index, name, match_score].  The match API (flask_api.py,               *)
(* match_resources_api.py) answers a request with [kind, ok, data]: kind   *)
(* "rejected" when fetch or response.json() throws, else "json".           *)
(***************************************************************************)
Match(index, name, match_score) ==
    [index |-> index, name |-> name, match_score |-> match_score]

MatchResult(success, matches, affected_area) ==
    [success |-> success, matches |-> matches,
     affected_area |-> affected_area]

\* lines 337-377, 381-412: the mock data of both fallback branches
\* variant: a fourth shelter is listed
fallbackMatchResult_Mutant(area) ==
    MatchResult(TRUE,
                <<Match(1, "Georgetown Community Center", 94),
                  Match(2, "Arlington Emergency Shelter", 88),
                  Match(3, "Anacostia Recreation Center", 85),
                  Match(4, "Anacostia Recreation Center", 85)>>,
                area)

fallbackMatchResult(area) ==
    MatchResult(TRUE,
                <<Match(1, "Georgetown Community Center", 94),
                  Match(2, "Arlington Emergency Shelter", 88),
                  Match(3, "Anacostia Recreation Center", 85)>>,
                area)

\* a ranking holds up to 3 shelters
TopMatches == 3

\* scores that the match API gives
ApiScores == {0, 73, 100}

\* the rankings that the match API returns: up to 3 shelters, each with a
\* match score of 0 to 100
ApiRankings ==
    {[i \in 1..Len(score) |-> Match(i, "Shelter", score[i])] :
        score \in SeqsBetween(ApiScores, 0, TopMatches)}

MatchApiResponse(kind, isOk, data) ==
    [kind |-> kind, ok |-> isOk, data |-> data]

\* the answers of the match API: a ranking, a reported failure (status
\* 500, or success false), a body that is not JSON, and no answer at all
MatchApiResponses ==
    {MatchApiResponse("json", TRUE, MatchResult(TRUE, ranking, ""))
        : ranking \in ApiRankings}
    \cup {MatchApiResponse("json", isOk, MatchResult(FALSE, <<>>, ""))
            : isOk \in BOOLEAN}
    \cup {MatchApiResponse("json", FALSE, MatchResult(TRUE, <<>>, "")),
          MatchApiResponse("unparsable", TRUE, Null),
          MatchApiResponse("rejected", FALSE, Null)}

\* line 612: the button of a displayed area card; lines 304-306
HandleMatchResources ==
    /\ areaPhase = "mounted"
    /\ matchIssued < MaxMatchRequests
    /\ \E v \in sortedAreas(areas, areaSortBy) : \E i \in 1..Len(v) :
        matchInFlight' = matchInFlight
                         \cup {[id |-> matchIssued + 1, area |-> v[i].id]}
    /\ matchIssued' = matchIssued + 1
    /\ matchLoading' = TRUE
    /\ matchDialogOpen' = TRUE
    /\ matchResult' = Null
    /\ UNCHANGED <<chatVars, orchestrator, mapVars>>
    /\ UNCHANGED <<disaster, worldVars, shelterVars, areaVars>>

\* lines 333-415: the result set when the API has answered
\* variant: the body of an OK answer is stored whatever its success flag
matchResultAfter_Mutant(response, area) ==
    IF response.kind = "json" /\ response.ok
    THEN response.data
    ELSE fallbackMatchResult(area)

matchResultAfter(response, area) ==
    IF response.kind = "json" /\ response.ok /\ response.data.success
    THEN response.data
    ELSE fallbackMatchResult(area)

\* lines 308-416: the fetch of one call settles
MatchApiSettles(request, response) ==
    /\ request \in matchInFlight
    /\ matchInFlight' = matchInFlight \ {request}
    /\ matchResult' = matchResultAfter(response, request.area)
    /\ matchLoading' = FALSE
    /\ UNCHANGED <<matchDialogOpen, matchIssued>>
    /\ UNCHANGED <<chatVars, orchestrator, mapVars>>
    /\ UNCHANGED <<disaster, worldVars, shelterVars, areaVars>>

SettleMatchResources ==
    \E request \in matchInFlight, response \in MatchApiResponses :
        MatchApiSettles(request, response)

\* line 641, MatchedSheltersDialog line 57: onOpenChange(false)
CloseMatchDialog ==
    /\ matchDialogOpen
    /\ matchDialogOpen' = FALSE
    /\ UNCHANGED <<matchResult, matchLoading, matchIssued, matchInFlight>>
    /\ UNCHANGED <<chatVars, orchestrator, mapVars>>
    /\ UNCHANGED <<disaster, worldVars, shelterVars, areaVars>>

(***************************************************************************)
(* MapView: the effect of lines 33-71 calls fetchShelters once at mount;   *)
(* the closure's flag `mounted` is cleared by the effect's cleanup.  A     *)
(* shelter of the API has the fields id, shelter_name, latitude and        *)
(* longitude (JavaScript values).                                          *)
(***************************************************************************)
ApiShelter(id, shelter_name, latitude, longitude) ==
    [id |-> id, shelter_name |-> shelter_name,
     latitude |-> latitude, longitude |-> longitude]

\* lines 44-57: the marker mapped from a shelter that carries an id
mappedShelter(s) ==
    [id |-> s.id,
     name |-> IF Truthy(s.shelter_name) THEN s.shelter_name
              ELSE Str(<<"Unknown shelter">>),
     lat |-> IF NotNullish(s.latitude) THEN ToNumber(s.latitude) ELSE Null,
     lon |-> IF NotNullish(s.longitude) THEN ToNumber(s.longitude) ELSE Null]

\* the body of an answer of GET /shelters: text that parses to an array
\* ("array"), to an object with the array in its data field ("data"), to
\* null ("null"), to an object whose data is a number ("number"), or text
\* that is not JSON ("unparsable")
MapBody(shape, elems) == [shape |-> shape, elems |-> elems]

NotFetching == [at |-> "idle", body |-> MapBody("none", <<>>)]

\* line 41: res.json() rejects
mapBodyUnparsable(body) == body.shape = "unparsable"

\* lines 42-44: data = body?.data || body || []; data.map throws when data
\* is not an array
mapDataThrows(body) == body.shape = "number"

\* lines 42-57: the list handed to setShelters
mappedShelters(body) ==
    [i \in 1..Len(body.elems) |-> mappedShelter(body.elems[i])]

\* lines 59, 61, 63: a state setter is called only if (mounted)
\* variant: the setters are called whatever the flag
mountedGuard_Mutant(flag) == TRUE

mountedGuard(flag) == flag

\* lines 33-39, 67: the effect sets the flag and calls fetchShelters, which
\* runs up to its first await
MountMapView ==
    /\ mapPhase = "created"
    /\ mapPhase' = "mounted"
    /\ mounted' = TRUE
    /\ loadingShelters' = TRUE
    /\ shelterError' = Null
    /\ fetchShelters' = [fetchShelters EXCEPT !.at = "fetch"]
    /\ UNCHANGED mapShelters
    /\ UNCHANGED <<chatVars, matchVars, orchestrator>>
    /\ UNCHANGED <<disaster, worldVars, shelterVars, areaVars>>

\* lines 60-64: catch and finally
FetchSheltersCatches(message, body) ==
    /\ IF mountedGuard(mounted)
       THEN /\ shelterError' = message
            /\ loadingShelters' = FALSE
       ELSE UNCHANGED <<shelterError, loadingShelters>>
    /\ fetchShelters' = [at |-> "done", body |-> body]
    /\ UNCHANGED <<mapShelters, mapPhase, mounted>>

\* lines 39-40: the awaited fetch settles
SheltersFetchSettles(outcome) ==
    /\ fetchShelters.at = "fetch"
    /\ CASE outcome.kind = "rejected" ->
                FetchSheltersCatches(errorMessage("Failed to fetch"),
                                     fetchShelters.body)
         [] outcome.kind # "rejected" /\ ~ok(outcome) ->
                FetchSheltersCatches(Str(<<statusText(outcome.status)>>),
                                     fetchShelters.body)
         [] OTHER ->
                /\ fetchShelters' = [fetchShelters EXCEPT !.at = "json"]
                /\ UNCHANGED <<mapShelters, loadingShelters, shelterError,
                               mapPhase, mounted>>
    /\ UNCHANGED <<chatVars, matchVars, orchestrator>>
    /\ UNCHANGED <<disaster, worldVars, shelterVars, areaVars>>

\* lines 41-64: the awaited body arrives and fetchShelters runs to its end
SheltersBodyArrives(body) ==
    /\ fetchShelters.at = "json"
    /\ CASE mapBodyUnparsable(body) ->
                FetchSheltersCatches(
                    errorMessage("Unexpected token in JSON"), body)
         [] ~mapBodyUnparsable(body) /\ mapDataThrows(body) ->
                FetchSheltersCatches(
                    errorMessage("data.map is not a function"), body)
         [] OTHER ->
                /\ IF mountedGuard(mounted)
                   THEN /\ mapShelters' = mappedShelters(body)
                        /\ loadingShelters' = FALSE
                   ELSE UNCHANGED <<mapShelters, loadingShelters>>
                /\ fetchShelters' = [at |-> "done", body |-> body]
                /\ UNCHANGED <<shelterError, mapPhase, mounted>>
    /\ UNCHANGED <<chatVars, matchVars, orchestrator>>
    /\ UNCHANGED <<disaster, worldVars, shelterVars, areaVars>>

\* lines 68-70: the cleanup of the effect clears the flag
UnmountMapView ==
    /\ mapPhase = "mounted"
    /\ mapPhase' = "unmounted"
    /\ mounted' = FALSE
    /\ UNCHANGED <<mapShelters, loadingShelters, shelterError, fetchShelters>>
    /\ UNCHANGED <<chatVars, matchVars, orchestrator>>
    /\ UNCHANGED <<disaster, worldVars, shelterVars, areaVars>>

\* shelters that the shelter API returns: with coordinates as numbers, with
\* a latitude that is not numeric and no name, and without coordinates
ApiShelters ==
    {ApiShelter(1, Str(<<"Georgetown Community Center">>),
                Num(38905), Num(0 - 77036)),
     ApiShelter(2, Undefined, Str(<<"n", "/", "a">>), Num(0 - 77036)),
     ApiShelter(3, Str(<<"Anacostia Recreation Center">>),
                Undefined, Null)}

\* the bodies of the answers of GET /shelters
MapBodies ==
    {MapBody(shape, elems) :
        shape \in {"array", "data"},
        elems \in SeqsUpTo(ApiShelters, MaxMapShelters)}
    \cup {MapBody("null", <<>>), MapBody("number", <<>>),
          MapBody("unparsable", <<>>)}

(***************************************************************************)
(* The tool-calling assistant orchestrator (mcp-hub/api_server.py), one    *)
(* request at a time: Received, Tool-Detection, Tool-Execution,            *)
(* Response-Synthesis, Completed.  A tool invocation is [name, arguments]. *)
(* The text scanned for a tool call is a sequence of characters.           *)
(***************************************************************************)
OpenCall ==
    <<"<", "t", "o", "o", "l", "_", "c", "a", "l", "l", ">">>

CloseCall ==
    <<"<", "/", "t", "o", "o", "l", "_", "c", "a", "l", "l", ">">>

\* structured tool calls as the LLM writes them
WeatherCall ==
    <<"{", "\"", "n", "a", "m", "e", "\"", ":", " ", "\"", "c", "a", "l",
      "l", "_", "w", "e", "a", "t", "h", "e", "r", "_", "a", "p", "i",
      "\"", ",", " ", "\"", "a", "r", "g", "u", "m", "e", "n", "t", "s",
      "\"", ":", " ", "{", "\"", "c", "i", "t", "y", "\"", ":", " ", "\"",
      "B", "o", "s", "t", "o", "n", "\"", "}", "}">>

FemaCall ==
    <<"{", "\"", "n", "a", "m", "e", "\"", ":", " ", "\"", "c", "a", "l",
      "l", "_", "f", "e", "m", "a", "_", "a", "p", "i", "\"", ",", " ",
      "\"", "a", "r", "g", "u", "m", "e", "n", "t", "s", "\"", ":", " ",
      "{", "\"", "t", "o", "p", "\"", ":", " ", "5", "}", "}">>

\* a token that is not well formed
BrokenCall ==
    <<"{", "\"", "n", "a", "m", "e", "\"", ":", " ", "\"", "c", "a", "l",
      "l", "_", "w", "e", "a", "t", "h", "e", "r", "_", "a", "p", "i",
      "\"", ",", " ">>

Invocation(name, arguments) == [name |-> name, arguments |-> arguments]

NoInvocation == Invocation("none", "none")

\* JSON.parse of the text of a token: the invocation of a well-formed
\* token, NoInvocation for every other text
parsedCall(chars) ==
    CASE trim(chars) = WeatherCall ->
            Invocation("call_weather_api", "city=Boston")
      [] trim(chars) = FemaCall -> Invocation("call_fema_api", "top=5")
      [] OTHER -> NoInvocation

\* the texts between an opening delimiter and the closing delimiter next
\* to it, by the position of the opening delimiter
tokensOf(message) ==
    LET closes(i) == {j \in (i + Len(OpenCall))..Len(message) :
                         OccursAt(message, j, CloseCall)}
        opens == {i \in 1..Len(message) :
                     OccursAt(message, i, OpenCall) /\ closes(i) # {}}
    IN [i \in opens |->
            SubSeq(message, i + Len(OpenCall),
                   (CHOOSE k \in closes(i) : \A l \in closes(i) : k <= l) - 1)]

\* the positions of the well-formed structured tool-call tokens (a text
\* is bound through a singleton set where it is used more than once)
wellFormedTokens(message) ==
    UNION {{i \in DOMAIN tokens :
               \E token \in {tokens[i]} : parsedCall(token) # NoInvocation} :
           tokens \in {tokensOf(message)}}

\* the invocation of the first well-formed token
structuredCall(message) ==
    CHOOSE call \in {parsedCall(token) :
                        token \in {tokensOf(message)[i] :
                                      i \in {CHOOSE k \in wellFormed :
                                                 \A j \in wellFormed : k <= j :
                                             wellFormed \in
                                                 {wellFormedTokens(message)}}}} :
        TRUE

\* the pattern rules: keyword detection for weather, shelter and
\* volunteer intents
PatternRules ==
    <<[keyword |-> <<"w", "e", "a", "t", "h", "e", "r">>,
       tool |-> "call_weather_api"],
      [keyword |-> <<"s", "h", "e", "l", "t", "e", "r">>,
       tool |-> "search_shelters"],
      [keyword |-> <<"v", "o", "l", "u", "n", "t", "e", "e", "r">>,
       tool |-> "search_volunteers"]>>

matchingRules(message) ==
    UNION {{r \in 1..Len(PatternRules) :
               includes(text, PatternRules[r].keyword)} :
           text \in {toLowerCase(message)}}

\* the invocation synthesized by the first pattern rule that matches
patternCall(message) ==
    LET rules == matchingRules(message)
    IN IF rules = {} THEN NoInvocation
       ELSE Invocation(PatternRules[CHOOSE r \in rules :
                                        \A q \in rules : r <= q].tool,
                       "synthesized")

\* Tool-Detection: an explicit structured call wins over the pattern
\* fallback
\* variant: the pattern rules are applied first
toolDetection_Mutant(message) ==
    IF matchingRules(message) # {} THEN patternCall(message)
    ELSE IF wellFormedTokens(message) # {} THEN structuredCall(message)
    ELSE NoInvocation

toolDetection(message) ==
    IF wellFormedTokens(message) # {} THEN structuredCall(message)
    ELSE patternCall(message)

Request(stage, message, invocation, executed, result) ==
    [stage |-> stage, message |-> message, invocation |-> invocation,
     executed |-> executed, result |-> result,
     executions |-> 0, reply |-> "none"]

NoRequest == Request("Idle", <<>>, NoInvocation, "none", "none")

\* the callable data tools
Tools ==
    {"call_weather_api", "search_volunteers", "search_shelters",
     "call_fema_api", "call_arcgis_api"}

\* 1. Received: a message is accepted
Receive(message) ==
    /\ orchestrator.stage \in {"Idle", "Completed"}
    /\ orchestrator' = Request("Received", message, NoInvocation,
                               "none", "none")
    /\ UNCHANGED <<chatVars, matchVars, mapVars>>
    /\ UNCHANGED <<disaster, worldVars, shelterVars, areaVars>>

\* 2. Tool-Detection
ToolDetection ==
    /\ orchestrator.stage = "Received"
    /\ \E invocation \in {toolDetection(orchestrator.message)} :
        orchestrator' = [orchestrator EXCEPT !.stage = "Tool-Detection",
                                             !.invocation = invocation]
    /\ UNCHANGED <<chatVars, matchVars, mapVars>>
    /\ UNCHANGED <<disaster, worldVars, shelterVars, areaVars>>

\* 3. Tool-Execution: exactly one tool is dispatched, once; the call
\* returns a JSON result, or an explicit failure object when the tool
\* fails
\* variant: a failed call is tried once more
ToolExecution_Mutant ==
    /\ \/ orchestrator.stage = "Tool-Detection"
       \/ /\ orchestrator.stage = "Tool-Execution"
          /\ orchestrator.result = "failure"
          /\ orchestrator.executions < 2
    /\ orchestrator.invocation # NoInvocation
    /\ orchestrator.invocation.name \in Tools
    /\ \E result \in {"json", "failure"} :
        orchestrator' =
            [orchestrator EXCEPT !.stage = "Tool-Execution",
                                 !.executed = orchestrator.invocation.name,
                                 !.executions = @ + 1,
                                 !.result = result]
    /\ UNCHANGED <<chatVars, matchVars, mapVars>>
    /\ UNCHANGED <<disaster, worldVars, shelterVars, areaVars>>

ToolExecution ==
    /\ orchestrator.stage = "Tool-Detection"
    /\ orchestrator.invocation # NoInvocation
    /\ orchestrator.invocation.name \in Tools
    /\ \E result \in {"json", "failure"} :
        orchestrator' =
            [orchestrator EXCEPT !.stage = "Tool-Execution",
                                 !.executed = orchestrator.invocation.name,
                                 !.executions = @ + 1,
                                 !.result = result]
    /\ UNCHANGED <<chatVars, matchVars, mapVars>>
    /\ UNCHANGED <<disaster, worldVars, shelterVars, areaVars>>

\* the reply synthesized from the outcome of the tool step: a degraded
\* reply (apology or fallback text) after a failure, else an answer
\* variant: a failure is passed on to the caller as an error
synthesizedReply_Mutant(result) ==
    IF result = "failure" THEN "error" ELSE "answer"

synthesizedReply(result) ==
    IF result = "failure" THEN "degraded" ELSE "answer"

\* 4. Response-Synthesis: of the tool result, or of the raw message when
\* no tool matched
ResponseSynthesis ==
    /\ \/ orchestrator.stage = "Tool-Execution"
       \/ /\ orchestrator.stage = "Tool-Detection"
          /\ orchestrator.invocation = NoInvocation
    /\ orchestrator' =
           [orchestrator EXCEPT !.stage = "Response-Synthesis",
                                !.reply = synthesizedReply(orchestrator.result)]
    /\ UNCHANGED <<chatVars, matchVars, mapVars>>
    /\ UNCHANGED <<disaster, worldVars, shelterVars, areaVars>>

\* 5. Completed: the reply is returned
Complete ==
    /\ orchestrator.stage = "Response-Synthesis"
    /\ orchestrator' = [orchestrator EXCEPT !.stage = "Completed"]
    /\ UNCHANGED <<chatVars, matchVars, mapVars>>
    /\ UNCHANGED <<disaster, worldVars, shelterVars, areaVars>>

\* the pieces that scanned texts are made of
ToolPieces ==
    {OpenCall, CloseCall,
     OpenCall \o WeatherCall \o CloseCall,
     OpenCall \o FemaCall \o CloseCall,
     OpenCall \o BrokenCall \o CloseCall,
     <<"W", "e", "a", "t", "h", "e", "r", "?">>,
     <<" ", "v", "o", "l", "u", "n", "t", "e", "e", "r", " ">>}

ToolMessages == {Flatten(p) : p \in SeqsBetween(ToolPieces, 0, MaxToolPieces)}

(***************************************************************************)
(* Specifications.                                                         *)
(***************************************************************************)
\* the state after the components are constructed (useState defaults)
Constructed ==
    /\ needs = <<>>
    /\ sortBy = "urgency"
    /\ radiusKm = NoRadius
    /\ loading = FALSE
    /\ error = Null
    /\ shelterPhase = "created"
    /\ shelterIssued = 0
    /\ shelterInFlight = {}
    /\ shelterAsked = <<>>
    /\ shelterResolved = NoneResolved
    /\ shelterInterval = NoInterval
    /\ shelterPolled = 0
    /\ areas = <<>>
    /\ areaSortBy = "priority"
    /\ areaLoading = FALSE
    /\ areaError = Null
    /\ areaPhase = "created"
    /\ areaIssued = 0
    /\ areaInFlight = {}
    /\ areaAsked = <<>>
    /\ areaResolved = NoneResolved
    /\ areaInterval = NoInterval
    /\ areaPolled = 0
    /\ revision = 0
    /\ now = 0
    /\ messages = <<Message("assistant", Greeting, Undefined)>>
    /\ input = <<>>
    /\ isLoading = FALSE
    /\ chatRequest = NoChatRequest
    /\ toasts = 0
    /\ matchDialogOpen = FALSE
    /\ matchResult = Null
    /\ matchLoading = FALSE
    /\ matchIssued = 0
    /\ matchInFlight = {}
    /\ orchestrator = NoRequest
    /\ mapShelters = <<>>
    /\ loadingShelters = FALSE
    /\ shelterError = Null
    /\ mapPhase = "created"
    /\ mounted = FALSE
    /\ fetchShelters = NotFetching

\* the life cycle of a panel: mount, polls, refreshes, unmount
Init ==
    /\ disaster = DEFAULT_DISASTER
    /\ fixture \in PanelFixtures
    /\ Constructed

Next ==
    \/ MountResourcePanel
    \/ PollShelters
    \/ RefreshShelters
    \/ SettleFetchNeeds
    \/ UnmountResourcePanel
    \/ MountAffectedAreaPanel
    \/ PollAreas
    \/ RefreshAreas
    \/ SettleFetchAffectedAreas
    \/ UnmountAffectedAreaPanel
    \/ AdvanceTime

Spec == Init /\ [][Next]_vars

\* the life cycle of a polling panel while the server rewrites the data
\* file
InitRace ==
    /\ disaster = DEFAULT_DISASTER
    /\ fixture \in RaceFixtures
    /\ Constructed

NextRace ==
    \/ MountResourcePanel
    \/ PollShelters
    \/ SettleFetchNeeds
    \/ UnmountResourcePanel
    \/ MountAffectedAreaPanel
    \/ PollAreas
    \/ SettleFetchAffectedAreas
    \/ UnmountAffectedAreaPanel
    \/ AdvanceTime
    \/ ReviseDataFile

SpecRace == InitRace /\ [][NextRace]_vars

\* one fetch cycle of a panel, over every DisasterContext and data file
InitEnrich ==
    /\ disaster \in DisasterContexts
    /\ fixture \in EnrichFixtures
    /\ Constructed

NextEnrich ==
    \/ MountResourcePanel
    \/ SettleFetchNeeds
    \/ MountAffectedAreaPanel
    \/ SettleFetchAffectedAreas

SpecEnrich == InitEnrich /\ [][NextEnrich]_vars

\* a conversation in the chat
InitChat ==
    /\ disaster = DEFAULT_DISASTER
    /\ fixture = Fixture(AreaPanel, Body(<<AreaNear>>))
    /\ Constructed

NextChat ==
    \/ \E text \in ChatInputs : TypeInput(text)
    \/ HandleSend
    \/ EndpointFails
    \/ \E json \in ChatBodies : EndpointResponds(json)

SpecChat == InitChat /\ [][NextChat]_vars

\* the first message of a conversation, over every reply body
NextReply ==
    \/ \E text \in ChatInputs : Len(messages) = 1 /\ TypeInput(text)
    \/ Len(messages) = 1 /\ HandleSend
    \/ EndpointFails
    \/ \E json \in ReplyBodies : EndpointResponds(json)

SpecReply == InitChat /\ [][NextReply]_vars

\* the affected-area panel with its match dialog
InitMatch ==
    /\ disaster = DEFAULT_DISASTER
    /\ fixture = Fixture(AreaPanel, Body(<<AreaNear, AreaAtCenter>>))
    /\ Constructed

NextMatch ==
    \/ MountAffectedAreaPanel
    \/ SettleFetchAffectedAreas
    \/ HandleMatchResources
    \/ SettleMatchResources
    \/ CloseMatchDialog

SpecMatch == InitMatch /\ [][NextMatch]_vars

\* the life cycle of the map view
NextMap ==
    \/ MountMapView
    \/ \E outcome \in Outcomes : SheltersFetchSettles(outcome)
    \/ \E body \in MapBodies : SheltersBodyArrives(body)
    \/ UnmountMapView

SpecMap == InitChat /\ [][NextMap]_vars

\* one request to the orchestrator, over every scanned text
NextTools ==
    \/ /\ orchestrator.stage = "Idle"
       /\ \E message \in ToolMessages : Receive(message)
    \/ ToolDetection
    \/ ToolExecution
    \/ ResponseSynthesis
    \/ Complete

SpecTools == InitChat /\ [][NextTools]_vars

\* a request that was received is handled to its end
SpecToolsLive ==
    /\ SpecTools
    /\ WF_vars(ToolDetection)
    /\ WF_vars(ToolExecution)
    /\ WF_vars(ResponseSynthesis)
    /\ WF_vars(Complete)

(***************************************************************************)
(* Properties.  The raw record behind needs[i] is line i of the data file, *)
(* the raw record behind areas[i] is element i of the data file.           *)
(***************************************************************************)
rawShelter(i) == fixture.file[i].value

rawArea(i) == fixture.file.value[i]

\* a defined numeric value
IsNumeric(x) == x.t = "number"

\* the area's coordinates are a pair of defined numeric values
HasNumericPair(coordinates) ==
    /\ coordinates.t = "array"
    /\ Len(coordinates.s) = 2
    /\ IsNumeric(coordinates.s[1])
    /\ IsNumeric(coordinates.s[2])

\* the ETA formula of the specification, for a distance in metres and
\* multipliers in hundredths
SpecEta(distance_km, road_factor, demand_multiplier, priority_multiplier) ==
    IF distance_km.t = "number"
    THEN LET minutes ==
                MixMul(MixMul(MixAdd(MixDiv(6 * distance_km.v,
                                            80 * road_factor), 20),
                              demand_multiplier, 100),
                       priority_multiplier, 100)
         IN Num(IF MathRound(minutes) > 5 THEN MathRound(minutes) ELSE 5)
    ELSE NaN

SpecRoadFactor(severity) ==
    CASE severity = "critical" -> 85
      [] severity = "high" -> 95
      [] severity = "moderate" -> 98
      [] OTHER -> 100

\* some resource item matches some needed resource (case-insensitive
\* substring)
SpecOverlap(items) ==
    \E i \in 1..Len(items) : \E r \in 1..Len(disaster.resourcesNeeded) :
        includes(toLowerCase(items[i].s),
                 toLowerCase(disaster.resourcesNeeded[r]))

SpecDemandMultiplier(items) == IF SpecOverlap(items) THEN 125 ELSE 100

SpecPriorityMultiplier(priority) ==
    CASE priority \in {"high", "critical"} -> 85
      [] priority = "low" -> 115
      [] OTHER -> 100

\* the priority band of an area (getPriorityBadge, lines 529-533)
AreaPriorityBand(priority_level) ==
    IF priority_level >= 5 THEN "critical"
    ELSE IF priority_level >= 4 THEN "high" ELSE "medium"

\* C1 (as claimed): after any fetch cycle, distance_km and eta_minutes of
\* every enriched shelter and area are both numbers if and only if the
\* entity's latitude and longitude and the DisasterContext's lat and lon
\* are all defined numeric values, and are both null otherwise.
C1_DerivedFieldsIffCoordinates ==
    /\ \A i \in 1..Len(needs) :
        IF /\ IsNumeric(rawShelter(i).latitude)
           /\ IsNumeric(rawShelter(i).longitude)
           /\ IsNumeric(disaster.lat)
           /\ IsNumeric(disaster.lon)
        THEN IsNumeric(needs[i].distance_km) /\ IsNumeric(needs[i].eta_minutes)
        ELSE needs[i].distance_km = Null /\ needs[i].eta_minutes = Null
    /\ \A i \in 1..Len(areas) :
        IF /\ HasNumericPair(rawArea(i).coordinates)
           /\ IsNumeric(disaster.lat)
           /\ IsNumeric(disaster.lon)
        THEN IsNumeric(areas[i].distance_km) /\ IsNumeric(areas[i].eta_minutes)
        ELSE areas[i].distance_km = Null /\ areas[i].eta_minutes = Null

\* the ETA formula holds of every shelter whose distance is defined
ShelterEtaFormula ==
    \A i \in 1..Len(needs) :
        NotNullish(needs[i].distance_km) =>
            needs[i].eta_minutes =
                SpecEta(needs[i].distance_km,
                        SpecRoadFactor(disaster.severity),
                        SpecDemandMultiplier(needs[i].items),
                        SpecPriorityMultiplier(needs[i].priority))

\* C2 (as claimed): for every enriched shelter and affected area whose
\* distance is defined, eta_minutes = max(5, round((distance_km / (80 *
\* road_factor) * 60 + 20) * demand_multiplier * priority_multiplier)) with
\* the demand multiplier 1.25 on a resource overlap and the priority
\* multiplier 0.85 / 1.15 / 1.0 for high or critical / low / other.
C2_EtaFormulaAsClaimed ==
    /\ ShelterEtaFormula
    /\ \A i \in 1..Len(areas) :
        NotNullish(areas[i].distance_km) =>
            areas[i].eta_minutes =
                SpecEta(areas[i].distance_km,
                        SpecRoadFactor(disaster.severity),
                        SpecDemandMultiplier(areas[i].required_resources),
                        SpecPriorityMultiplier(
                            AreaPriorityBand(areas[i].priority_level)))

\* C2 (amended): the formula holds of every shelter whose distance is
\* defined; for an affected area whose distance is defined the demand
\* multiplier is always 1.0 and the priority multiplier is 0.85 for
\* priority_level >= 5, 0.95 for priority_level 4 and 1.0 below.
C2_EtaFormula ==
    /\ ShelterEtaFormula
    /\ \A i \in 1..Len(areas) :
        NotNullish(areas[i].distance_km) =>
            areas[i].eta_minutes =
                SpecEta(areas[i].distance_km,
                        SpecRoadFactor(disaster.severity),
                        100,
                        CASE areas[i].priority_level >= 5 -> 85
                          [] areas[i].priority_level = 4 -> 95
                          [] OTHER -> 100)

\* C2 witness: a loaded area of priority_level 4 with a resource overlap
\* and a shelter with an overlap whose ETA is above the floor
C2_Witness ==
    \/ \E i \in 1..Len(areas) :
        /\ areas[i].priority_level = 4
        /\ IsNumeric(areas[i].eta_minutes)
        /\ areas[i].eta_minutes.v > 5
    \/ \E i \in 1..Len(needs) :
        /\ needs[i].priority = "low"
        /\ SpecOverlap(needs[i].items)
        /\ IsNumeric(needs[i].eta_minutes)
        /\ needs[i].eta_minutes.v > 5

\* C3 (as claimed): every eta_minutes that is defined is at least 5.
C3_EtaAtLeastFive ==
    /\ \A i \in 1..Len(needs) :
        NotNullish(needs[i].eta_minutes) =>
            NumLeq(Num(5), needs[i].eta_minutes)
    /\ \A i \in 1..Len(areas) :
        NotNullish(areas[i].eta_minutes) =>
            NumLeq(Num(5), areas[i].eta_minutes)

\* C4: the urgency of every enriched shelter is priority_score + eta_score,
\* with priority_score 0 / 50 / 100 for high / medium / low and eta_score
\* the ETA when it is defined and 9999 when it is not.
C4_UrgencyFormula ==
    \A i \in 1..Len(needs) :
        needs[i].urgency =
            NumAdd(Num(CASE needs[i].priority = "high" -> 0
                         [] needs[i].priority = "medium" -> 50
                         [] needs[i].priority = "low" -> 100),
                   IF NotNullish(needs[i].eta_minutes)
                   THEN needs[i].eta_minutes
                   ELSE Num(9999))

\* C4 witness: a loaded list with a medium-priority shelter whose ETA is
\* defined and a shelter whose ETA is undefined
C4_Witness ==
    /\ \E i \in 1..Len(needs) :
        needs[i].priority = "medium" /\ IsNumeric(needs[i].eta_minutes)
    /\ \E i \in 1..Len(needs) : needs[i].eta_minutes = Null

Count(seq, x) == Cardinality({i \in 1..Len(seq) : seq[i] = x})

\* v holds the elements of w, each as often as w does
PermutationOf(v, w) ==
    /\ Len(v) = Len(w)
    /\ \A i \in 1..Len(w) : Count(v, w[i]) = Count(w, w[i])

\* in v, the entities whose field is defined come first, in non-decreasing
\* order of the field
DefinedFirstAscending(v, field) ==
    \A i, j \in 1..Len(v) :
        i < j =>
            /\ NotNullish(v[j][field]) => NotNullish(v[i][field])
            /\ (NotNullish(v[i][field]) /\ NotNullish(v[j][field])) =>
                    NumLeq(v[i][field], v[j][field])

\* the arrays that the sort of sortedAreas can leave behind, before the
\* slice
sortedAreasBeforeSlice(sortKey) ==
    SortOutcomes(areas, LAMBDA a, b : areasComparator(sortKey, a, b))

\* C5 (as claimed): the view sorted by ETA (by distance) is a permutation
\* of the filtered list in which every entity with a defined ETA
\* (distance) precedes every entity with an undefined one and the defined
\* values are in non-decreasing order; the view sorted by urgency is in
\* non-decreasing order of urgency.
C5_SortedViews ==
    /\ \A r \in Radii :
        /\ \A v \in sortedFiltered(needs, "eta", r) :
            /\ PermutationOf(v, radiusFiltered(needs, r))
            /\ DefinedFirstAscending(v, "eta_minutes")
        /\ \A v \in sortedFiltered(needs, "distance", r) :
            /\ PermutationOf(v, radiusFiltered(needs, r))
            /\ DefinedFirstAscending(v, "distance_km")
        /\ \A v \in sortedFiltered(needs, "urgency", r) :
            \A i, j \in 1..Len(v) :
                i < j => NumLeq(v[i].urgency, v[j].urgency)
    /\ \A v \in sortedAreasBeforeSlice("eta") :
        /\ PermutationOf(v, areas)
        /\ DefinedFirstAscending(v, "eta_minutes")
    /\ \A v \in sortedAreasBeforeSlice("distance") :
        /\ PermutationOf(v, areas)
        /\ DefinedFirstAscending(v, "distance_km")

\* the shelters of `list` whose distance is a number that is at most r
WithinRadius(list, r) ==
    SelectSeq(list, LAMBDA n : IsNumeric(n.distance_km)
                               /\ n.distance_km.v <= r.v)

\* under every sort key, the filtered view for the radius r holds exactly
\* the shelters whose distance is defined and at most r
ViewIsWithinRadius(r) ==
    \A k \in SortKeys : \A v \in sortedFiltered(needs, k, r) :
        PermutationOf(v, WithinRadius(needs, r))

\* C6 (as claimed): for every radius threshold R supplied by the caller
\* the filtered view contains exactly the shelters whose distance_km is
\* defined and <= R.
C6_RadiusFilterAsClaimed ==
    \A r \in Radii : IsNumeric(r) => ViewIsWithinRadius(r)

\* C6 (amended): for every radius threshold R > 0 supplied by the caller
\* the filtered view contains exactly the shelters whose distance_km is
\* defined and <= R.
C6_RadiusFilter ==
    \A r \in Radii : (IsNumeric(r) /\ r.v > 0) => ViewIsWithinRadius(r)

\* C6 witness: the loaded shelters are at about 2 km, at about 6 km and
\* without a distance, and a radius of 5 km keeps only the first
C6_Witness ==
    /\ Len(needs) = 3
    /\ needs[1].distance_km = Num(2002)
    /\ IsNumeric(needs[2].distance_km) /\ needs[2].distance_km.v > 5000
    /\ needs[3].distance_km = Null
    /\ \A v \in sortedFiltered(needs, sortBy, Num(5000)) : v = <<needs[1]>>

\* C7 (as claimed): under the urgency sort every shelter whose eta_minutes
\* is undefined is placed after every shelter whose eta_minutes is
\* defined.
C7_UnknownEtaLast ==
    \A r \in Radii : \A v \in sortedFiltered(needs, "urgency", r) :
        \A i, j \in 1..Len(v) :
            i < j => (NotNullish(v[j].eta_minutes)
                        => NotNullish(v[i].eta_minutes))

\* a outranks b: higher priority_level, or the same priority_level and a
\* larger population_affected
Outranks(a, b) ==
    \/ a.priority_level > b.priority_level
    \/ /\ a.priority_level = b.priority_level
       /\ a.population_affected > b.population_affected

\* C8: the affected-area view holds min(5, number of loaded areas) of the
\* loaded areas, sorted by the selected key; with the default priority key
\* it is in priority_level descending, then population_affected descending
\* order, and no area outside the view outranks an area inside it.
C8_TopFiveAreas ==
    \A v \in sortedAreas(areas, areaSortBy) :
        /\ Len(v) = (IF Len(areas) < 5 THEN Len(areas) ELSE 5)
        /\ \A i \in 1..Len(v) : Count(v, v[i]) <= Count(areas, v[i])
        /\ areaSortBy = "priority" =>
            /\ \A i, j \in 1..Len(v) : i < j => ~Outranks(v[j], v[i])
            /\ \A i \in 1..Len(areas) :
                Count(areas, areas[i]) > Count(v, areas[i]) =>
                    \A j \in 1..Len(v) : ~Outranks(areas[i], v[j])

\* C8 witness: more than five areas are loaded, the sixth of them outranks
\* the first, and two areas of the same priority_level differ in population
C8_Witness ==
    /\ areaSortBy = "priority"
    /\ Len(areas) > 5
    /\ Outranks(areas[6], areas[1])
    /\ \E i, j \in 1..Len(areas) :
        /\ areas[i].priority_level = areas[j].priority_level
        /\ areas[i].population_affected < areas[j].population_affected
        /\ i < j

\* s without its k-th element
Remove(s, k) == SubSeq(s, 1, k - 1) \o SubSeq(s, k + 1, Len(s))

\* C9 (as claimed): when a record of the fetched list has missing or
\* invalid coordinates, its distance_km and eta_minutes are undefined and
\* every other record gets the distance_km, eta_minutes and urgency it
\* gets when the faulty record is not in the list; enrichment never raises.
C9_FaultyRecordIsolated ==
    /\ \A k \in 1..Len(needs) :
        ~(IsNumeric(rawShelter(k).latitude)
          /\ IsNumeric(rawShelter(k).longitude)) =>
            /\ needs[k].distance_km = Null
            /\ needs[k].eta_minutes = Null
            /\ Remove(needs, k)
                 = enrichedNeeds(Remove(parsedLines(fixture.file), k), disaster)
    /\ \A k \in 1..Len(areas) :
        ~HasNumericPair(rawArea(k).coordinates) =>
            /\ areas[k].distance_km = Null
            /\ areas[k].eta_minutes = Null
            /\ Remove(areas, k)
                 = enrichedAreas(Remove(fixture.file.value, k), disaster)

\* C10: when a fetch of a mounted panel fails (network error or non-OK
\* HTTP status), the panel's error becomes a non-null message, the loaded
\* list stays as it was and loading becomes false.
C10_FailedFetchKeepsData ==
    [][/\ \A id \in shelterInFlight : \A o \in FailedOutcomes :
            (shelterPhase = "mounted" /\ FetchNeedsSettles(id, o)) =>
                /\ error' # Null
                /\ error'.t = "string"
                /\ needs' = needs
                /\ loading' = FALSE
       /\ \A id \in areaInFlight : \A o \in FailedOutcomes :
            (areaPhase = "mounted" /\ FetchAffectedAreasSettles(id, o)) =>
                /\ areaError' # Null
                /\ areaError'.t = "string"
                /\ areas' = areas
                /\ areaLoading' = FALSE]_vars

\* C10 witness: a fetch has failed after a list was loaded: the error is
\* set, the list is still there and nothing is loading
C10_Witness ==
    /\ shelterPhase = "mounted"
    /\ error # Null
    /\ needs # <<>>
    /\ loading = FALSE
    /\ shelterInFlight = {}

\* the list that the shelter panel builds from revision k of the data file
needsOfRevision(k) ==
    enrichedNeeds(parsedLines(served(fixture, k)), disaster)

\* the list that the area panel builds from revision k of the data file
areasOfRevision(k) == enrichedAreas(served(fixture, k).value, disaster)

\* C11: fetches of one panel are neither cancelled nor sequenced: the list
\* shown is the one built from the response that was loaded last, whichever
\* call it answers, so the response to an older call that settles after
\* the response to a newer call overwrites the newer data.
C11_LastResponseWins ==
    /\ needs = IF shelterResolved.last.id = 0 THEN <<>>
               ELSE needsOfRevision(shelterResolved.last.revision)
    /\ areas = IF areaResolved.last.id = 0 THEN <<>>
               ELSE areasOfRevision(areaResolved.last.revision)

\* C11 witness: every call has settled, the response loaded last answers
\* an older call than the newest loaded response, and the list shown is
\* the older data, which differs from the newer data
C11_Witness ==
    /\ shelterPhase = "mounted"
    /\ shelterInFlight = {}
    /\ shelterResolved.last.id < shelterResolved.newest.id
    /\ shelterResolved.last.revision < shelterResolved.newest.revision
    /\ needs = needsOfRevision(shelterResolved.last.revision)
    /\ needs # needsOfRevision(shelterResolved.newest.revision)

\* the state of a panel's poll: nothing is fetched before the mount; while
\* mounted the interval is armed for the next multiple of 60 s after the
\* mount and no tick up to now is missing; after the teardown no interval
\* is armed
PollState(phase, issued, interval, polled) ==
    /\ phase = "created" => (issued = 0 /\ ~interval.armed)
    /\ phase = "mounted" =>
        /\ interval.armed
        /\ issued >= 1 + polled
        /\ interval.dueAt = (polled + 1) * 60000
        /\ now <= interval.dueAt
        /\ interval.dueAt - now <= 60000
    /\ phase = "unmounted" => ~interval.armed

\* C12: while a panel is mounted one fetch is issued at mount and one more
\* at every 60-second tick; once the panel is torn down the poll is
\* cancelled and the panel starts no further fetch.
C12_PollEveryMinuteUntilTeardown ==
    /\ [](/\ PollState(shelterPhase, shelterIssued, shelterInterval,
                       shelterPolled)
          /\ PollState(areaPhase, areaIssued, areaInterval, areaPolled))
    /\ [][/\ (shelterPhase = "created" /\ shelterPhase' = "mounted") =>
                shelterIssued' = 1
          /\ shelterPolled' # shelterPolled =>
                /\ shelterPhase = "mounted"
                /\ now = (shelterPolled + 1) * 60000
                /\ shelterPolled' = shelterPolled + 1
                /\ shelterIssued' = shelterIssued + 1
          /\ shelterPhase = "unmounted" =>
                /\ shelterPhase' = "unmounted"
                /\ shelterIssued' = shelterIssued
          /\ (areaPhase = "created" /\ areaPhase' = "mounted") =>
                areaIssued' = 1
          /\ areaPolled' # areaPolled =>
                /\ areaPhase = "mounted"
                /\ now = (areaPolled + 1) * 60000
                /\ areaPolled' = areaPolled + 1
                /\ areaIssued' = areaIssued + 1
          /\ areaPhase = "unmounted" =>
                /\ areaPhase' = "unmounted"
                /\ areaIssued' = areaIssued]_vars

\* C12 witness: a panel was mounted, two minutes passed with a poll at
\* each tick and nothing else issued, and the panel was torn down
C12_Witness ==
    /\ shelterPhase = "unmounted"
    /\ now = 120000
    /\ shelterPolled = 2
    /\ shelterIssued = 3

\* the loaded areas that lie exactly at the center of the DisasterContext
\* and have priority_level 5
CentralCriticalAreas ==
    {i \in 1..Len(areas) :
        /\ IsNumeric(disaster.lat) /\ IsNumeric(disaster.lon)
        /\ rawArea(i).coordinates = Arr(<<disaster.lat, disaster.lon>>)
        /\ rawArea(i).priority_level = 5}

\* C13 (as claimed): an affected area exactly at the DisasterContext center
\* with priority_level 5 is enriched to distance_km = 0 and
\* eta_minutes = 5.
C13_CentralAreaAsClaimed ==
    \A i \in CentralCriticalAreas :
        areas[i].distance_km = Num(0) /\ areas[i].eta_minutes = Num(5)

\* C13 (amended): an affected area exactly at the DisasterContext center
\* with priority_level 5 is enriched to distance_km = 0 and
\* eta_minutes = 17, the 20 minutes of deployment overhead times 0.85.
C13_CentralArea ==
    \A i \in CentralCriticalAreas :
        areas[i].distance_km = Num(0) /\ areas[i].eta_minutes = Num(17)

\* C13 witness: such an area has been loaded
C13_Witness == CentralCriticalAreas # {}

\* the DisasterContext with another severity
Severe(severity) == [disaster EXCEPT !.severity = severity]

\* for every loaded shelter and area with a numeric distance, the ETA
\* under severity critical (road factor 0.85) is at least the ETA under
\* severity low (road factor 1.0), the record being the same, and it is
\* larger when the distance is at least `strictFrom` metres
SlowerRoadsLaterEta(strictFrom) ==
    /\ \A i \in 1..Len(needs) :
        IsNumeric(needs[i].distance_km) =>
            LET slow == needEtaMinutes(needs[i], Severe("critical"))
                fast == needEtaMinutes(needs[i], Severe("low"))
            IN /\ slow.v >= fast.v
               /\ needs[i].distance_km.v >= strictFrom => slow.v > fast.v
    /\ \A i \in 1..Len(areas) :
        IsNumeric(areas[i].distance_km) =>
            LET slow == areaEtaMinutes(areas[i], Severe("critical"))
                fast == areaEtaMinutes(areas[i], Severe("low"))
            IN /\ slow.v >= fast.v
               /\ areas[i].distance_km.v >= strictFrom => slow.v > fast.v

\* C14 (as claimed): at every fixed distance and with the same demand and
\* priority multipliers, the ETA with road factor 0.85 is strictly greater
\* than the ETA with road factor 1.0.
C14_SlowerRoadsAsClaimed == SlowerRoadsLaterEta(0)

\* C14 (amended): at every fixed distance and with the same demand and
\* priority multipliers, the ETA with road factor 0.85 is never smaller
\* than the ETA with road factor 1.0, and it is strictly greater when the
\* distance is at least 9 km.
C14_SlowerRoads == SlowerRoadsLaterEta(9000)

\* C14 witness: a loaded shelter between 9 and 10 km away whose ETA with
\* road factor 0.85 is one minute more than with road factor 1.0
C14_Witness ==
    \E i \in 1..Len(needs) :
        /\ IsNumeric(needs[i].distance_km)
        /\ needs[i].distance_km.v >= 9000
        /\ needs[i].distance_km.v < 10000
        /\ needEtaMinutes(needs[i], Severe("critical")).v
             = needEtaMinutes(needs[i], Severe("low")).v + 1

\* the reply text of the request that has just been answered, when the
\* endpoint's answer normalizes to a string
AnsweredWithText ==
    /\ ~chatRequest.active
    /\ chatRequest.json # NoJson
    /\ normalizedReply(chatRequest.json, chatRequest.prompt).t = "string"

LastMessage == messages[Len(messages)]

\* C15 (as claimed): for every backend reply text, the content of the
\* assistant message shown contains no <think>...</think> segment, and the
\* trimmed text of the segment of the reply is carried as the message's
\* reasoning trace (an empty trace being carried as none).
C15_ThinkingSplitOut ==
    AnsweredWithText =>
        LET reply == normalizedReply(chatRequest.json, chatRequest.prompt).s
        IN /\ ~thinkMatch(LastMessage.content).found
           /\ thinkMatch(reply).found =>
                  LastMessage.thinking \in
                      {Str(trim(thinkCapture(reply)))} \cup
                      {u \in {Undefined} : trim(thinkCapture(reply)) = <<>>}

\* C16 (as claimed): every assistant message appended by handleSend, for
\* every response body and every failure of the endpoints, has non-empty
\* content.
C16_ReplyNeverEmpty ==
    \A i \in 1..Len(messages) :
        messages[i].role = "assistant" => messages[i].content # <<>>

\* the step in which the last of the endpoints fails
BackendUnreachable ==
    /\ chatRequest.active
    /\ chatRequest.attempt = ChatEndpoints
    /\ ~chatRequest'.active
    /\ chatRequest'.json = NoJson

\* C17: when every endpoint attempt fails, handleSend appends exactly one
\* fallback assistant message, shows one warning toast and sets isLoading
\* back to false; whenever no request is in progress the input field is
\* enabled, so that a further message can be sent.
C17_UnreachableBackendFallsBack ==
    /\ [](chatRequest.active <=> isLoading)
    /\ [][BackendUnreachable =>
            /\ messages' = Append(messages,
                                  Message("assistant", FallbackContent,
                                          Undefined))
            /\ toasts' = toasts + 1
            /\ ~isLoading']_vars

\* C17 witness: after a fallback for an unreachable backend, the next
\* message has been sent
C17_Witness ==
    /\ Len(messages) = 4
    /\ messages[3] = Message("assistant", FallbackContent, Undefined)
    /\ messages[4].role = "user"
    /\ toasts = 1
    /\ chatRequest.active

C19_ResultDiscardedOnClose ==
    [][(/\ matchDialogOpen
        /\ ~matchLoading
        /\ matchResult # Null
        /\ ~matchDialogOpen') => matchResult' = Null]_vars

\* C20: in Tool-Detection, whenever a well-formed structured tool-call
\* token is present, the invocation that is detected and executed is the
\* one parsed from that token, even when a keyword pattern also matches;
\* the pattern rules decide the tool only when no well-formed token is
\* present.
C20_StructuredCallWins ==
    LET message == orchestrator.message
        found == tokensOf(message)
        tokens == {found[i] : i \in DOMAIN found}
        calls == {parsedCall(t) : t \in tokens} \ {NoInvocation}
        byPattern == {Invocation(PatternRules[r].tool, "synthesized") :
                         r \in matchingRules(message)}
    IN /\ orchestrator.stage \notin {"Idle", "Received"} =>
            IF calls # {} THEN orchestrator.invocation \in calls
            ELSE IF byPattern # {} THEN orchestrator.invocation \in byPattern
            ELSE orchestrator.invocation = NoInvocation
       /\ orchestrator.executed # "none" =>
            orchestrator.executed = orchestrator.invocation.name

\* C20 witness: a text with a well-formed token for the FEMA tool that
\* also matches the volunteer pattern, and the FEMA tool was executed
C20_Witness ==
    /\ orchestrator.stage = "Completed"
    /\ wellFormedTokens(orchestrator.message) # {}
    /\ matchingRules(orchestrator.message) = {3}
    /\ orchestrator.executed = "call_fema_api"

\* the position of a stage in the order of the state machine
StageRank(stage) ==
    CASE stage = "Idle" -> 0
      [] stage = "Received" -> 1
      [] stage = "Tool-Detection" -> 2
      [] stage = "Tool-Execution" -> 3
      [] stage = "Response-Synthesis" -> 4
      [] stage = "Completed" -> 5

\* C21: every converse request moves through Received, Tool-Detection,
\* Tool-Execution, Response-Synthesis and Completed in that order without
\* going back (Tool-Execution being passed over exactly when no tool was
\* detected); it dispatches to at most one tool, which is one of the five
\* tools, executes it at most once, and always reaches Completed with a
\* reply.
C21_OneShotStateMachine ==
    /\ [](/\ orchestrator.executions <= 1
          /\ orchestrator.executions = 1 <=> orchestrator.executed # "none"
          /\ orchestrator.executed # "none" =>
                /\ orchestrator.executed \in Tools
                /\ orchestrator.executed = orchestrator.invocation.name
          /\ StageRank(orchestrator.stage) >= 4 =>
                (orchestrator.executions = 1
                    <=> orchestrator.invocation # NoInvocation))
    /\ [][LET from == StageRank(orchestrator.stage)
              to == StageRank(orchestrator'.stage)
          IN \/ to = from + 1
             \/ /\ from = 2
                /\ to = 4
                /\ orchestrator.invocation = NoInvocation]_orchestrator
    /\ (orchestrator.stage = "Received") ~>
           (orchestrator.stage = "Completed" /\ orchestrator.reply # "none")

\* C21 witness: a request completed after the volunteer search, detected
\* by its pattern, was executed once
C21_Witness ==
    /\ orchestrator.stage = "Completed"
    /\ orchestrator.executed = "search_volunteers"
    /\ orchestrator.executions = 1
    /\ orchestrator.reply = "answer"

\* C22: a failure during Tool-Execution never leaves the orchestration
\* boundary as an error: the tool step yields a structured result or an
\* explicit failure object, and the request completes with a textual
\* reply, a degraded one after a failure.
C22_ToolFailureDegradesReply ==
    /\ [](/\ orchestrator.result \in {"none", "json", "failure"}
          /\ orchestrator.reply \in {"none", "answer", "degraded"}
          /\ StageRank(orchestrator.stage) >= 4 =>
                (orchestrator.reply = "degraded"
                    <=> orchestrator.result = "failure"))
    /\ (orchestrator.result = "failure") ~>
           (orchestrator.stage = "Completed"
               /\ orchestrator.reply = "degraded")

\* C22 witness: a request whose tool failed has completed with a degraded
\* reply
C22_Witness ==
    /\ orchestrator.stage = "Completed"
    /\ orchestrator.result = "failure"
    /\ orchestrator.reply = "degraded"

\* a coordinate pair
Coordinates(lat, lon) == [lat |-> lat, lon |-> lon]

\* the coordinate pairs that the panels hand to haversineKm: the disaster
\* centre and the numeric coordinates of the loaded shelters and areas
LoadedPoints ==
    {Coordinates(disaster.lat, disaster.lon) : k \in
        {k \in {1} : IsNumeric(disaster.lat) /\ IsNumeric(disaster.lon)}}
    \cup {Coordinates(needs[i].lat, needs[i].lon) : i \in
        {i \in 1..Len(needs) :
            IsNumeric(needs[i].lat) /\ IsNumeric(needs[i].lon)}}
    \cup {Coordinates(areas[i].coordinates.s[1], areas[i].coordinates.s[2]) :
        i \in {i \in 1..Len(areas) : HasNumericPair(areas[i].coordinates)}}

\* the two points lie on one meridian or both on the equator
OnOneArc(a, b) == a.lon = b.lon \/ (a.lat.v = 0 /\ b.lat.v = 0)

FallbackAppended ==
    /\ chatRequest.active
    /\ ~chatRequest'.active
    /\ messages' = Append(messages,
                          Message("assistant", FallbackContent, Undefined))

\* C24 (as claimed): handleSend contacts the endpoints in the fixed order
\* /api/disaster-chat, /assistant/converse, /chat; a later endpoint is
\* contacted only after every earlier one has failed, the request ends at
\* the first endpoint that answers, and the local fallback message is
\* appended only when all three endpoints have failed.
C24_EndpointFallbackOrder ==
    [][/\ (~chatRequest.active /\ chatRequest'.active) =>
            chatRequest'.attempt = 1
       /\ (chatRequest.active /\ chatRequest'.active) =>
            /\ chatRequest'.attempt = chatRequest.attempt + 1
            /\ chatRequest'.attempt <= ChatEndpoints
            /\ chatRequest'.json = NoJson
       /\ (chatRequest.active /\ chatRequest'.json # NoJson) =>
            ~chatRequest'.active
       /\ FallbackAppended =>
            /\ chatRequest.attempt = ChatEndpoints
            /\ chatRequest'.json = NoJson]_vars

\* C25 (as claimed): for each panel, loading is true exactly while at
\* least one fetch of that panel is in flight, so loading = false implies
\* that no fetch is pending, also when a poll and a manual refresh overlap.
C25_LoadingWhileInFlight ==
    /\ shelterPhase = "mounted" => (loading <=> shelterInFlight # {})
    /\ areaPhase = "mounted" => (areaLoading <=> areaInFlight # {})

\* the message list `after` is `before` with one message of the role added
\* at its end
AppendsOne(before, after, role) ==
    /\ Len(after) = Len(before) + 1
    /\ SubSeq(after, 1, Len(before)) = before
    /\ after[Len(after)].role = role

\* C26: the chat's message list is append-only and paired: with an empty or
\* whitespace-only input no step changes the list, a send appends exactly
\* one user message (the typed text) at once and its completion appends
\* exactly one assistant message, no other step touches the list, and
\* isLoading is false whenever no send is in progress.
C26_AppendOnlyPairedMessages ==
    /\ [](/\ ~chatRequest.active => ~isLoading
          /\ Len(messages) = (IF chatRequest.active THEN 0 ELSE 1)
                             + 2 * Cardinality({i \in 1..Len(messages) :
                                                 messages[i].role = "user"})
          /\ \A i \in 1..Len(messages) :
                messages[i].role = (IF i % 2 = 1 THEN "assistant" ELSE "user"))
    /\ [][/\ (~chatRequest.active /\ trim(input) = <<>>) =>
                /\ messages' = messages
                /\ ~chatRequest'.active
          /\ (~chatRequest.active /\ chatRequest'.active) =>
                messages' = Append(messages, Message("user", input, Undefined))
          /\ (chatRequest.active /\ ~chatRequest'.active) =>
                AppendsOne(messages, messages', "assistant")
          /\ (chatRequest.active <=> chatRequest'.active) =>
                messages' = messages]_vars

\* C26 witness: two sends have completed, the first answered by an endpoint
\* and the second by the fallback, and a whitespace-only text is in the
\* input field
C26_Witness ==
    /\ Len(messages) = 5
    /\ ~chatRequest.active
    /\ messages[3].content # FallbackContent
    /\ messages[5].content = FallbackContent
    /\ input # <<>>
    /\ trim(input) = <<>>

\* the step in which a match request completes
MatchRequestCompletes ==
    /\ Cardinality(matchInFlight') < Cardinality(matchInFlight)
    /\ matchIssued' = matchIssued

\* C27: a match request never ends in an error state: when a request
\* completes, whatever the API answered, matchResult is non-null with
\* success true and matchLoading is false, and in no state is the dialog's
\* error branch (not loading, a result, success false) reached.
C27_MatchNeverFails ==
    /\ [](~(~matchLoading /\ matchResult # Null /\ ~matchResult.success))
    /\ [][MatchRequestCompletes =>
            /\ matchResult' # Null
            /\ matchResult'.success
            /\ ~matchLoading']_vars

\* C27 witness: two requests have completed and the result held is the
\* local fallback
C27_Witness ==
    /\ matchIssued = 2
    /\ matchInFlight = {}
    /\ matchResult # Null
    /\ \E area \in {areas[i].id : i \in 1..Len(areas)} :
        matchResult = fallbackMatchResult(area)

\* the records of the first 10 lines of a shelter file
firstShelters(file) ==
    [i \in 1..(IF Len(lines(file)) < MaxShelters THEN Len(lines(file))
               ELSE MaxShelters) |-> lines(file)[i].value]

\* C28 (as claimed): each shelter refresh is all-or-nothing: if the HTTP
\* status is not OK or any line fails to parse, the list is left as before
\* and only error and loading change; otherwise the list is replaced as a
\* whole by the enrichment, in file order, of at most the first 10 records.
C28_RefreshAllOrNothing ==
    [][\A id \in shelterInFlight : \A o \in Outcomes : \A k \in 0..revision :
        (shelterPhase = "mounted" /\ FetchNeedsDelivers(id, o, k)) =>
            LET received == served(fixture, k)
            IN IF \/ ~ok(o)
                  \/ \E i \in 1..Len(lines(received)) :
                        ~lines(received)[i].json
               THEN /\ needs' = needs
                    /\ error' # Null
                    /\ ~loading'
                    /\ UNCHANGED <<sortBy, radiusKm>>
               ELSE /\ Len(needs') = Len(firstShelters(received))
                    /\ \A i \in 1..Len(needs') :
                        /\ firstShelters(received)[i] # Null
                        /\ needs'[i] = enrichedNeed(
                                mapped(firstShelters(received)[i]), disaster)
                    /\ ~loading']_vars

\* C29 (as claimed): once no match request is in flight, the MatchResult
\* shown is the result of the most recently started request (every request
\* stores its result when it settles, so the request that settles last is
\* the one started last), and matchLoading is true in every state with some
\* request in flight, also when two requests overlap and resolve out of
\* order.
C29_LatestMatchRequestWins ==
    /\ [](matchInFlight # {} => matchLoading)
    /\ [][(matchInFlight # {} /\ matchInFlight' = {}) =>
            \A request \in matchInFlight : request.id = matchIssued]_vars

\* the step in which fetchShelters runs to its end
FetchSheltersCompletes ==
    fetchShelters.at # "done" /\ fetchShelters'.at = "done"

\* C30: in the map view, no step taken once the view is unmounted (the
\* fetch resolving, its body arriving, the fetch failing) changes shelters,
\* shelterError or loadingShelters; they change only in steps after which
\* the view is mounted, and a fetch that completes while the view is
\* mounted stores its list or its error and clears loadingShelters.
C30_NoUpdateAfterUnmount ==
    [][/\ mapPhase = "unmounted" =>
            UNCHANGED <<mapShelters, shelterError, loadingShelters>>
       /\ <<mapShelters, shelterError, loadingShelters>>'
            # <<mapShelters, shelterError, loadingShelters>> =>
                mapPhase' = "mounted"
       /\ (FetchSheltersCompletes /\ mapPhase = "mounted") =>
            /\ ~loadingShelters'
            /\ \/ /\ shelterError' = Null
                  /\ mapShelters' = mappedShelters(fetchShelters'.body)
               \/ /\ shelterError' # Null
                  /\ mapShelters' = mapShelters]_vars

\* C30 witness: the view was unmounted while the body of an OK answer was
\* awaited, the body with shelters has arrived, and the state is as the
\* unmount left it
C30_Witness ==
    /\ mapPhase = "unmounted"
    /\ fetchShelters.at = "done"
    /\ fetchShelters.body.elems # <<>>
    /\ mapShelters = <<>>
    /\ shelterError = Null
    /\ loadingShelters

====
